---- MODULE Spec2Model ----
(***************************************************************************)
(* Model of the market-data core of the trading dashboard backend:         *)
(*   backend/services/marketDataService.js  (store, generator, service)    *)
(*   backend/routes/marketRoutes.js         (validation, cache, routes;    *)
(*                                           held in services/userService.js) *)
(*   backend/routes/analysisRoutes.js       (held in services/userService.js) *)
(*   backend/server.js                      (cron tick, socket handlers)   *)
(*                                                                         *)
(* Conventions.                                                            *)
(*  - A JavaScript string is a sequence of one-character strings, so that  *)
(*    regular expressions, toUpperCase and String.includes are computed.   *)
(*  - Time is in seconds (Date values are ms in the source; every constant *)
(*    of the source that matters is a whole number of seconds).            *)
(*  - Prices are integers in cents; Math.random() is a per-mille integer   *)
(*    0..999 standing for r/1000.                                          *)
(*  - An async function is a task that advances one await at a time; the   *)
(*    synchronous code after an await belongs to the step of that await.   *)
(***************************************************************************)
EXTENDS Integers, Sequences, FiniteSets, TLC

(***************************************************************************)
(* Bounds of the model.  The source's sample counts (100 default points,   *)
(* limit <= 500 on the routes, <= 1000 in the service) are scaled down to  *)
(* DefaultPoints <= RouteMaxLimit <= MaxPoints, keeping their order.       *)
(***************************************************************************)
DefaultPoints == 2
RouteMaxLimit == 3
MaxPoints == 4
MaxClock == 300
MaxTicks == 1
SentimentBars == 3
ShortWindow == 2
VolumeWindow == 2
CacheHorizon == 90

(***************************************************************************)
(* Program constants.                                                      *)
(***************************************************************************)
BarSpacing == 300
TickPeriod == 60
TtlLatest == 30
TtlHistorical == 300
TtlMinute == 60
TtlSearch == 3600
SymbolMaxLen == 10
PersistCap == 1000

(***************************************************************************)
(* Strings                                                                 *)
(***************************************************************************)
UpperLetters == <<"A","B","C","D","E","F","G","H","I","J","K","L","M",
                  "N","O","P","Q","R","S","T","U","V","W","X","Y","Z">>
LowerLetters == <<"a","b","c","d","e","f","g","h","i","j","k","l","m",
                  "n","o","p","q","r","s","t","u","v","w","x","y","z">>
Digits == <<"0","1","2","3","4","5","6","7","8","9">>

Range(s) == {s[i] : i \in DOMAIN s}

IndexOf(c, s) == CHOOSE i \in DOMAIN s : s[i] = c

Min(a, b) == IF a <= b THEN a ELSE b
Max(a, b) == IF a >= b THEN a ELSE b

\* String.prototype.toUpperCase
toUpperCase(str) ==
  [i \in DOMAIN str |->
     IF str[i] \in Range(LowerLetters)
     THEN UpperLetters[IndexOf(str[i], LowerLetters)]
     ELSE str[i]]

\* String.prototype.includes: p occurs in s as a contiguous substring
Includes(s, p) ==
  \E k \in 0..(Len(s) - Len(p)) : \A i \in 1..Len(p) : s[k + i] = p[i]

\* /^[A-Za-z0-9.]{1,10}$/
MatchesSymbolRegex(str) ==
  /\ Len(str) >= 1
  /\ Len(str) <= SymbolMaxLen
  /\ \A i \in DOMAIN str :
       str[i] \in Range(UpperLetters) \cup Range(LowerLetters)
                    \cup Range(Digits) \cup {"."}

\* /^[A-Z0-9.]{1,10}$/ of the schema
MatchesSchemaSymbol(str) ==
  /\ Len(str) >= 1
  /\ Len(str) <= SymbolMaxLen
  /\ \A i \in DOMAIN str :
       str[i] \in Range(UpperLetters) \cup Range(Digits) \cup {"."}

SPY == <<"S","P","Y">>
AAPL == <<"A","A","P","L">>
MSFT == <<"M","S","F","T">>
GOOGL == <<"G","O","O","G","L">>
AMZN == <<"A","M","Z","N">>
TOOLONG == <<"T","O","O","L","O","N","G","1","2","3","4","5">>

(***************************************************************************)
(* SeriesGenerator                                                         *)
(***************************************************************************)
\* the symbol -> base price table, in cents
BasePrice(symbol) ==
  100 * (CASE symbol = SPY -> 450
           [] symbol = AAPL -> 180
           [] symbol = MSFT -> 350
           [] symbol = GOOGL -> 140
           [] symbol = AMZN -> 175
           [] OTHER -> 100)

\* 1000 * sin(i / d) by the series x - x^3/6 (i / d stays below 1 here)
SinMilli(i, d) ==
  LET x == (1000 * i) \div d
  IN x - ((x * x * x) \div 6000000)

\* One bar of the backfill loop: index i of numPoints, random draws r
\* (r[1] noise, r[2] open, r[3] high, r[4] low, r[5] volume), volatility
\* factor vf in parts per million.
LoopBar(symbol, numPoints, i, now, r, vf) ==
  LET dayFactor == 3 * SinMilli(i, 30)
      hourFactor == 2 * SinMilli(i, 8)
      minuteFactor == ((r[1] - 500) * 3) \div 2
      noise == dayFactor + hourFactor + minuteFactor
      base == BasePrice(symbol)
      close == base + (base * ((noise * vf) \div 1000)) \div 1000000
      range == close \div 500
      open == close - ((r[2] - 500) * range) \div 1000
      high == Max(close, open) + (r[3] * range) \div 1000
      low == Min(close, open) - (r[4] * range) \div 1000
  IN [symbol |-> symbol,
      timestamp |-> now - (numPoints - i) * BarSpacing,
      open |-> open, high |-> high, low |-> low, close |-> close,
      volume |-> 50000 + r[5] * 150,
      source |-> "SIMULATED"]

\* The loop of generateSampleData: rs[i + 1] are the draws of iteration i.
SampleBatch(symbol, numPoints, now, rs) ==
  [k \in 1..numPoints |-> LoopBar(symbol, numPoints, k - 1, now, rs[k], 884)]

\* floor(10 * sqrt(n)) computed by bisection
RECURSIVE SqrtSearch(_, _, _)
SqrtSearch(n, lo, hi) ==
  IF lo >= hi THEN lo
  ELSE LET mid == (lo + hi + 1) \div 2
       IN IF mid * mid <= n THEN SqrtSearch(n, mid, hi)
          ELSE SqrtSearch(n, lo, mid - 1)

ISqrt(n) == SqrtSearch(n, 0, 46340)

\* a new data point that repeats the open of the latest bar
NextBarFromOpen(symbol, latestData, now, r) ==
  LET prevClose == latestData.close
      timeElapsed == (now - latestData.timestamp) \div 60
      volatilityFactor == (7 * ISqrt(100 * timeElapsed)) \div 10
      change == (((prevClose * (2 * r[1] - 1000)) \div 1000) * volatilityFactor) \div 10000
      newClose == prevClose + change
      range == prevClose \div 1000
  IN [symbol |-> symbol, timestamp |-> now, open |-> latestData.open,
      high |-> Max(prevClose, newClose) + (r[2] * range) \div 1000,
      low |-> Min(prevClose, newClose) - (r[3] * range) \div 1000,
      close |-> newClose, volume |-> 50000 + r[4] * 150, source |-> "SIMULATED"]

\* The new data point of fetchMarketData from the latest bar (r[1] change,
\* r[2] high, r[3] low, r[4] volume).
NextBar(symbol, latestData, now, r) ==
  LET prevClose == latestData.close
      timeElapsed == (now - latestData.timestamp) \div 60
      \* 0.0007 * sqrt(timeElapsed) in units of 1/10000
      volatilityFactor == (7 * ISqrt(100 * timeElapsed)) \div 10
      change == (((prevClose * (2 * r[1] - 1000)) \div 1000)
                   * volatilityFactor) \div 10000
      newClose == prevClose + change
      range == prevClose \div 1000
  IN [symbol |-> symbol,
      timestamp |-> now,
      open |-> prevClose,
      high |-> Max(prevClose, newClose) + (r[2] * range) \div 1000,
      low |-> Min(prevClose, newClose) - (r[3] * range) \div 1000,
      close |-> newClose,
      volume |-> 50000 + r[4] * 150,
      source |-> "SIMULATED"]

\* generateSimulatedData: [] on an invalid symbol or count, else the loop
generateSimulatedData(symbol, numPoints, now, rs) ==
  IF Len(symbol) = 0 THEN <<>>
  ELSE IF numPoints <= 0 \/ numPoints > MaxPoints THEN <<>>
  ELSE [k \in 1..numPoints |->
          LoopBar(symbol, numPoints, k - 1, now, rs[k], 1000)]

\* One bar of generateHistoricalSimulation at price currentPrice (r[1]
\* diffusion, r[2] open, r[3] high, r[4] low, r[5] volume); intervalDrift is
\* 4 and intervalVol 1070 parts per million.
HistoricalBar(symbol, numPoints, i, now, currentPrice, r) ==
  LET range == currentPrice \div 500
      open == currentPrice - ((r[2] - 500) * range) \div 1000
      close == currentPrice
  IN [symbol |-> symbol,
      timestamp |-> now - (numPoints - i) * BarSpacing,
      open |-> open,
      high |-> Max(open, close) + (r[3] * range) \div 1000,
      low |-> Min(open, close) - (r[4] * range) \div 1000,
      close |-> close,
      volume |-> 50000 + r[5] * 150,
      source |-> "SIMULATED"]

\* currentPrice * (1 + drift + diffusion)
WalkStep(currentPrice, r) ==
  currentPrice
    + (currentPrice * (4 + (1070 * (2 * r[1] - 1000)) \div 1000)) \div 1000000

\* the loop of generateHistoricalSimulation from iteration i on; every
\* iteration draws as rs[1]
RECURSIVE HistoricalLoop(_, _, _, _, _, _)
HistoricalLoop(symbol, numPoints, i, now, currentPrice, rs) ==
  IF i >= numPoints THEN <<>>
  ELSE LET price == WalkStep(currentPrice, rs[1])
       IN <<HistoricalBar(symbol, numPoints, i, now, price, rs[1])>>
            \o HistoricalLoop(symbol, numPoints, i + 1, now, price, rs)

generateHistoricalSimulation(symbol, numPoints, now, rs) ==
  HistoricalLoop(symbol, numPoints, 0, now, BasePrice(symbol), rs)

(***************************************************************************)
(* TimeSeriesStore: the MarketData collection                              *)
(***************************************************************************)
\* the String setter `uppercase: true`, applied to documents and to filters
CastSymbol(symbol) == toUpperCase(symbol)

CastDoc(doc) == [doc EXCEPT !.symbol = CastSymbol(@)]

\* the validators of MarketDataSchema
SchemaValid(doc) ==
  /\ MatchesSchemaSymbol(doc.symbol)
  /\ doc.open > 0
  /\ doc.high >= doc.open
  /\ doc.low <= doc.open
  /\ doc.close > 0
  /\ doc.volume >= 0
  /\ doc.source \in {"SIMULATED", "ALPHA_VANTAGE", "YAHOO", "IEX", "CUSTOM"}

\* MarketDataSchema.pre('save')
PreSaveOk(doc) == ~(doc.high < doc.low)

KeyPresent(st, doc) ==
  \E b \in st : b.symbol = doc.symbol /\ b.timestamp = doc.timestamp

\* a collection without the unique index: every key is accepted
NoUniqueIndex(st, doc) == TRUE

\* the unique compound index { symbol: 1, timestamp: 1 }
UniqueIndexAccepts(st, doc) == ~KeyPresent(st, doc)

\* MarketData.insertMany(docs, { ordered: false }): documents that fail
\* validation or hit the unique index are skipped, the others are inserted
RECURSIVE InsertMany(_, _)
InsertMany(st, docs) ==
  IF docs = <<>> THEN st
  ELSE LET doc == CastDoc(Head(docs))
           st1 == IF SchemaValid(doc) /\ UniqueIndexAccepts(st, doc)
                  THEN st \cup {doc} ELSE st
       IN InsertMany(st1, Tail(docs))

\* error.code === 11000 of the bulk write: some document hit the index
RECURSIVE InsertManyDup(_, _)
InsertManyDup(st, docs) ==
  IF docs = <<>> THEN FALSE
  ELSE LET doc == CastDoc(Head(docs))
           ok == SchemaValid(doc) /\ UniqueIndexAccepts(st, doc)
       IN \/ SchemaValid(doc) /\ ~UniqueIndexAccepts(st, doc)
          \/ InsertManyDup(IF ok THEN st \cup {doc} ELSE st, Tail(docs))

\* a save that overwrites the stored document with the same key
SaveUpsert(st, rawDoc) ==
  LET doc == CastDoc(rawDoc)
  IN IF ~SchemaValid(doc) THEN [store |-> st, err |-> "validation"]
     ELSE IF ~PreSaveOk(doc) THEN [store |-> st, err |-> "presave"]
     ELSE [store |-> {b \in st : ~(b.symbol = doc.symbol
                                   /\ b.timestamp = doc.timestamp)}
                      \cup {doc},
           err |-> "none"]

\* new MarketData(doc).save(): validation, pre-save hook, unique index
Save(st, rawDoc) ==
  LET doc == CastDoc(rawDoc)
  IN IF ~SchemaValid(doc) THEN [store |-> st, err |-> "validation"]
     ELSE IF ~PreSaveOk(doc) THEN [store |-> st, err |-> "presave"]
     ELSE IF ~UniqueIndexAccepts(st, doc) THEN [store |-> st, err |-> "dup"]
     ELSE [store |-> st \cup {doc}, err |-> "none"]

BarsOf(st, symbol) == {b \in st : b.symbol = CastSymbol(symbol)}

\* .sort({ timestamp: -1 })
RECURSIVE SortDesc(_)
SortDesc(S) ==
  IF S = {} THEN <<>>
  ELSE LET m == CHOOSE b \in S : \A c \in S : c.timestamp <= b.timestamp
       IN <<m>> \o SortDesc(S \ {m})

Take(seq, n) == SubSeq(seq, 1, Min(n, Len(seq)))

\* the query order kept as it is: newest first
ReverseOmitted(seq) == seq

\* data.reverse()
Reverse(seq) == [i \in 1..Len(seq) |-> seq[Len(seq) + 1 - i]]

\* MarketData.find({ symbol }).sort({ timestamp: -1 }).limit(limit)
FindLatest(st, symbol, limit) == Take(SortDesc(BarsOf(st, symbol)), limit)

(***************************************************************************)
(* State                                                                   *)
(***************************************************************************)
VARIABLES
  clock,        \* Date.now(), in seconds
  store,        \* the MarketData collection: a set of bars
  tasks,        \* the async calls in flight, one record per slot
  cache,        \* the NodeCache of marketRoutes: key -> [v, t]
  conns,        \* the connected sockets
  subs,         \* subscribedSymbols of each connected socket
  emitted,      \* the latest io.emit / socket.emit: {} or one event
  ticks,        \* number of cron ticks started
  serviceMock   \* "none", or the jest double standing in for the service

vars == <<clock, store, tasks, cache, conns, subs, emitted, ticks, serviceMock>>

TaskIds == {1, 2}
ConnIds == {1, 2}

\* the symbols the cron tick refreshes, in order
TickSymbols == <<SPY, AAPL, MSFT, GOOGL>>

\* Math.random() draws of one loop iteration
Draws == {<<0, 0, 0, 0, 0>>, <<999, 999, 999, 999, 999>>}

\* the draws of one generator call: rs[k] for iteration k - 1
DrawSeqs == {[k \in 1..(MaxPoints + 1) |-> d] : d \in Draws}

\* one draw sequence, for the runs that do not vary the generated batches
LowDraws == {[k \in 1..(MaxPoints + 1) |-> <<0,0,0,0,0>>]}

IdleTask ==
  [op |-> "none", pc |-> "idle", symbol |-> <<>>, limit |-> 0,
   numPoints |-> 0, cont |-> "", batch |-> <<>>, point |-> <<>>,
   result |-> <<>>, path |-> "", fpath |-> "", err |-> "none",
   conn |-> 0, req |-> [path |-> <<>>, query |-> <<>>], status |-> 0,
   outcome |-> "", xcache |-> "",
   body |-> [kind |-> "none", data |-> <<>>, symbol |-> <<>>, timestamp |-> 0],
   idx |-> 0, tickNo |-> 0, log |-> <<>>, touched |-> {},
   matchingKeys |-> {}, period |-> ""]

Free(t) == tasks[t].pc \in {"idle", "done"}

\* a call takes the lowest free slot
Slot(t) == Free(t) /\ \A u \in TaskIds : u < t => ~Free(u)

(***************************************************************************)
(* marketDataService: the synchronous code between two awaits              *)
(***************************************************************************)
\* a fallback of the default size, whatever the limit asked for
GlmdFallbackDefault(tk, path, rs) ==
  [tk EXCEPT !.pc = "ret",
             !.result = generateSimulatedData(tk.symbol, DefaultPoints, clock, rs),
             !.path = path, !.batch = <<>>, !.point = <<>>,
             !.touched = @ \cup {"generator"}]

\* getLatestMarketData: `return generateSimulatedData(symbol, limit)`
GlmdFallback(tk, path, rs) ==
  [tk EXCEPT !.pc = "ret",
             !.result = generateSimulatedData(tk.symbol, tk.limit, clock, rs),
             !.path = path, !.batch = <<>>, !.point = <<>>,
             !.touched = @ \cup {"generator"}]

\* fetchMarketData: its catch block
FmdCatch(tk, rs) ==
  [tk EXCEPT !.pc = "ret",
             !.result = generateSimulatedData(tk.symbol, DefaultPoints, clock, rs),
             !.path = "", !.fpath = "fmd_catch",
             !.batch = <<>>, !.point = <<>>,
             !.touched = @ \cup {"generator"}]

\* a switch that stops at the persistence cap
PeriodPointsCapped(period) ==
  CASE period = "1d" -> 75
    [] period = "1w" -> 390
    [] OTHER -> 1000

\* the switch of fetchHistoricalData
PeriodPoints(period) ==
  CASE period = "1d" -> 75
    [] period = "1w" -> 390
    [] period = "1m" -> 1680
    [] period = "3m" -> 5000
    [] period = "6m" -> 10000
    [] period = "1y" -> 20000
    [] OTHER -> 100

validPeriods == {"1d", "1w", "1m", "3m", "6m", "1y"}

\* the counts of the service on the scale of the bounds: 100 is
\* DefaultPoints, 500 RouteMaxLimit, 1000 MaxPoints
Scaled(n) ==
  IF n < 100 THEN DefaultPoints - 1
  ELSE IF n = 100 THEN DefaultPoints
  ELSE IF n <= 500 THEN RouteMaxLimit
  ELSE IF n <= PersistCap THEN MaxPoints
  ELSE IF n <= 1680 THEN MaxPoints + 1
  ELSE MaxPoints + 2

\* fetchHistoricalData: its catch block
FhdCatch(tk, rs) ==
  [tk EXCEPT !.pc = "ret",
             !.result = generateSimulatedData(tk.symbol, Scaled(200), clock, rs),
             !.path = "", !.fpath = "fhd_catch",
             !.batch = <<>>, !.point = <<>>,
             !.touched = @ \cup {"generator"}]

\* generateSampleData throws: where the caller catches it
GsdThrow(tk, rs) ==
  CASE tk.cont = "glmd" -> GlmdFallback(tk, "glmd_catch", rs)
    [] tk.cont = "fmd" -> FmdCatch(tk, rs)
    [] tk.cont = "fhd" -> FhdCatch(tk, rs)
    [] OTHER -> [tk EXCEPT !.pc = "ret", !.path = "gsd_throw", !.batch = <<>>]

\* generateSampleData: validation, then `await MarketData.find(...).limit(1)`
CallGsd(tk, numPoints, cont, rs) ==
  LET tk1 == [tk EXCEPT !.cont = cont, !.numPoints = numPoints]
  IN IF Len(tk.symbol) = 0 \/ numPoints <= 0 \/ numPoints > MaxPoints
     THEN GsdThrow(tk1, rs)
     ELSE [tk1 EXCEPT !.pc = "gsd_find", !.touched = @ \cup {"store"}]

\* getLatestMarketData: validation, then generateSampleData
CallGetLatest(tk, symbol, limit, rs) ==
  LET tk1 == [tk EXCEPT !.symbol = symbol, !.limit = limit,
                        !.touched = @ \cup {"service"}]
  IN IF Len(symbol) = 0 \/ limit <= 0 \/ limit > MaxPoints
     THEN GlmdFallback(tk1, "glmd_catch", rs)
     ELSE CallGsd(tk1, Max(limit, DefaultPoints), "glmd", rs)

\* generateSampleData returns: where the caller goes on
GsdReturn(tk, rs) ==
  CASE tk.cont = "glmd" -> [tk EXCEPT !.pc = "glmd_read", !.batch = <<>>]
    [] tk.cont = "fmd" ->
         CallGetLatest([tk EXCEPT !.fpath = "fmd_backfill", !.batch = <<>>],
                       tk.symbol, DefaultPoints, rs)
    [] tk.cont = "fhd" ->
         IF PeriodPoints(tk.period) > PersistCap
         THEN [tk EXCEPT !.pc = "ret", !.fpath = "fhd_sim", !.batch = <<>>,
                         !.result = generateHistoricalSimulation(
                                      tk.symbol, Scaled(PeriodPoints(tk.period)),
                                      clock, rs),
                         !.touched = @ \cup {"generator"}]
         ELSE CallGetLatest([tk EXCEPT !.fpath = "fhd_store", !.batch = <<>>],
                            tk.symbol, Scaled(PeriodPoints(tk.period)), rs)
    [] OTHER -> [tk EXCEPT !.pc = "ret", !.path = "gsd_done", !.batch = <<>>]

\* fetchHistoricalData: validation, the switch, then generateSampleData
CallHistorical(tk, symbol, period, rs) ==
  LET tk1 == [tk EXCEPT !.symbol = symbol, !.period = period,
                        !.touched = @ \cup {"service"}]
  IN IF Len(symbol) = 0 \/ period \notin validPeriods THEN FhdCatch(tk1, rs)
     ELSE CallGsd(tk1, Min(Scaled(PeriodPoints(period)), Scaled(PersistCap)),
                  "fhd", rs)

\* fetchMarketData: validation, then `await MarketData.findOne(...)`
CallFetch(tk, symbol, rs) ==
  LET tk1 == [tk EXCEPT !.symbol = symbol, !.fpath = "", !.path = "",
                        !.err = "none", !.result = <<>>,
                        !.touched = @ \cup {"service"}]
  IN IF Len(symbol) = 0 THEN FmdCatch(tk1, rs)
     ELSE [tk1 EXCEPT !.pc = "fmd_findOne", !.touched = @ \cup {"store"}]

\* generateSampleData after `await MarketData.find({ symbol }).limit(1)`
AfterGsdFind(tk, ok, rs) ==
  IF ~ok THEN GsdThrow([tk EXCEPT !.err = "dep"], rs)
  ELSE IF BarsOf(store, tk.symbol) # {} THEN GsdReturn(tk, rs)
  ELSE [tk EXCEPT !.pc = "gsd_insert",
                  !.batch = SampleBatch(tk.symbol, tk.numPoints, clock, rs),
                  !.touched = @ \cup {"generator"}]

\* generateSampleData after `await MarketData.insertMany(...)`
AfterGsdInsert(tk, ok, rs) ==
  IF ~ok THEN GsdThrow([tk EXCEPT !.err = "dep"], rs)
  ELSE GsdReturn([tk EXCEPT !.err = IF InsertManyDup(store, tk.batch)
                                    THEN "dup" ELSE @], rs)

\* getLatestMarketData after `await MarketData.find(...).sort().limit()`
AfterGlmdRead(tk, ok, rs) ==
  IF ~ok THEN GlmdFallback([tk EXCEPT !.err = "dep"], "glmd_catch", rs)
  ELSE LET data == FindLatest(store, tk.symbol, tk.limit)
       IN IF Len(data) = 0 THEN GlmdFallback(tk, "glmd_empty", rs)
          ELSE [tk EXCEPT !.pc = "ret", !.result = Reverse(data),
                          !.path = "glmd_store"]

\* fetchMarketData after `await MarketData.findOne(...).sort()`
AfterFmdFindOne(tk, ok, rs) ==
  IF ~ok THEN FmdCatch([tk EXCEPT !.err = "dep"], rs)
  ELSE LET latest == FindLatest(store, tk.symbol, 1)
       IN IF Len(latest) = 0 THEN CallGsd(tk, DefaultPoints, "fmd", rs)
          ELSE [tk EXCEPT !.pc = "fmd_save",
                          !.point = NextBar(tk.symbol, latest[1], clock, rs[1]),
                          !.touched = @ \cup {"generator"}]

\* fetchMarketData after `await marketData.save()`
AfterFmdSave(tk, ok, rs) ==
  IF ~ok THEN FmdCatch([tk EXCEPT !.err = "dep"], rs)
  ELSE LET r == Save(store, tk.point)
       IN IF r.err # "none" THEN FmdCatch([tk EXCEPT !.err = r.err], rs)
          ELSE CallGetLatest([tk EXCEPT !.fpath = "fmd_saved", !.point = <<>>],
                             tk.symbol, DefaultPoints, rs)

(***************************************************************************)
(* CacheLayer: the NodeCache instance and cacheMiddleware of marketRoutes  *)
(***************************************************************************)
\* an entry that expires as soon as its ttl has elapsed
CacheExpiredAtTtl(c, key, now) == key \in DOMAIN c /\ c[key].t <= now

\* NodeCache (_check: data.t < Date.now()) keeps an entry until its expiry
\* time t is in the past
CacheExpired(c, key, now) == key \in DOMAIN c /\ c[key].t < now

\* cache.get(key) finds a value
CacheHit(c, key, now) == key \in DOMAIN c /\ ~CacheExpired(c, key, now)

\* cache.get(key) deletes the entry it finds expired
CacheAfterGet(c, key, now) ==
  IF CacheExpired(c, key, now)
  THEN [k \in DOMAIN c \ {key} |-> c[k]] ELSE c

\* cache.set(key, data, ttl)
CacheSet(c, key, data, ttl, now) ==
  [k \in DOMAIN c \cup {key} |->
     IF k = key THEN [v |-> data, t |-> now + ttl] ELSE c[k]]

\* every key deleted, whatever the pattern
invalidateAll(c, pattern) == <<>>

\* invalidateCache(pattern): keys().filter(includes).forEach(del)
invalidateCache(c, pattern) ==
  [k \in {j \in DOMAIN c : ~Includes(j, pattern)} |-> c[k]]

(***************************************************************************)
(* HTTP requests: [path, query], query a sequence of <<name, value>>       *)
(***************************************************************************)
PathMarket == <<"/","a","p","i","/","m","a","r","k","e","t">>
PathOhlc == <<"/","a","p","i","/","m","a","r","k","e","t","/","o","h","l","c">>
ParamSymbol == <<"s","y","m","b","o","l">>
ParamLimit == <<"l","i","m","i","t">>

HasParam(q, name) == \E i \in DOMAIN q : q[i][1] = name

GetParam(q, name) == q[CHOOSE i \in DOMAIN q : q[i][1] = name][2]

RECURSIVE JoinQuery(_)
JoinQuery(q) ==
  IF q = <<>> THEN <<>>
  ELSE q[1][1] \o <<"=">> \o q[1][2]
       \o (IF Len(q) > 1 THEN <<"&">> \o JoinQuery(Tail(q)) ELSE <<>>)

\* req.originalUrl
OriginalUrl(req) ==
  req.path \o (IF req.query = <<>> THEN <<>> ELSE <<"?">> \o JoinQuery(req.query))

\* a key that ignores the query string
CacheKeyOfPath(req) == req.path

\* the cache key of cacheMiddleware
CacheKey(req) == OriginalUrl(req)

\* cacheMiddleware(ttl) of each cached route
RouteTtl(path) ==
  CASE path = PathMarket -> TtlLatest
    [] path = PathMarket \o <<"/","h","i","s","t","o","r","i","c","a","l">> ->
         TtlHistorical
    [] path = PathMarket \o <<"/","s","e","a","r","c","h">> -> TtlSearch
    [] OTHER -> TtlMinute

\* validator isInt: /^(?:[-+]?(?:0|[1-9][0-9]*))$/ (signs are not modelled)
IsInt(str) ==
  /\ Len(str) >= 1
  /\ \A i \in DOMAIN str : str[i] \in Range(Digits)
  /\ (Len(str) = 1 \/ str[1] # "0")

\* parseInt of a string of digits
RECURSIVE ParseInt(_)
ParseInt(str) ==
  IF str = <<>> THEN 0
  ELSE 10 * ParseInt(SubSeq(str, 1, Len(str) - 1))
       + (IndexOf(str[Len(str)], Digits) - 1)

\* the decimal digits of a natural number
RECURSIVE FormatInt(_)
FormatInt(n) ==
  IF n < 10 THEN <<Digits[n + 1]>>
  ELSE FormatInt(n \div 10) \o <<Digits[(n % 10) + 1]>>

\* symbolValidation: optional, isLength 1..10, matches the symbol regex
SymbolParamOk(q) ==
  ~HasParam(q, ParamSymbol) \/ MatchesSymbolRegex(GetParam(q, ParamSymbol))

\* limitValidation: optional, isInt({ min: 1, max: 500 })
LimitParamOk(q) ==
  \/ ~HasParam(q, ParamLimit)
  \/ /\ IsInt(GetParam(q, ParamLimit))
     /\ ParseInt(GetParam(q, ParamLimit)) >= 1
     /\ ParseInt(GetParam(q, ParamLimit)) <= RouteMaxLimit

\* a route without the validators: every request goes on to the handler
ValidatorsOmitted(req) == TRUE

\* validate: no validation error was collected
RequestValid(req) == SymbolParamOk(req.query) /\ LimitParamOk(req.query)

\* const { symbol = 'SPY', limit = 100 } = req.query
QuerySymbol(q) == IF HasParam(q, ParamSymbol) THEN GetParam(q, ParamSymbol) ELSE SPY
QueryLimit(q) ==
  IF HasParam(q, ParamLimit) THEN ParseInt(GetParam(q, ParamLimit)) ELSE DefaultPoints

NoBody == [kind |-> "none", data |-> <<>>, symbol |-> <<>>, timestamp |-> 0]

\* the JSON body a route sends for the service's bars
RouteBody(req, bars, now) ==
  IF req.path = PathOhlc
  THEN [kind |-> "ohlc",
        data |-> [i \in DOMAIN bars |->
                    [time |-> bars[i].timestamp, open |-> bars[i].open,
                     high |-> bars[i].high, low |-> bars[i].low,
                     close |-> bars[i].close, volume |-> bars[i].volume]],
        symbol |-> QuerySymbol(req.query), timestamp |-> now]
  ELSE [kind |-> "bars", data |-> bars, symbol |-> <<>>, timestamp |-> 0]

(***************************************************************************)
(* analysisRoutes: the sentiment report                                    *)
(* The raw score is kept in twentieths (0.2 is 4, 0.5 is 10, 0.75 is 15).  *)
(* An indicator is <<>> for null and <<sum>> for the sum of its window.    *)
(***************************************************************************)
RECURSIVE SumLast(_, _)
SumLast(seq, n) ==
  IF n = 0 \/ seq = <<>> THEN 0
  ELSE seq[Len(seq)] + SumLast(SubSeq(seq, 1, Len(seq) - 1), n - 1)

\* getLatestValue(calculateSMA(data, periods)), times periods
calculateSMA(data, periods) ==
  IF Len(data) < periods THEN <<>> ELSE <<SumLast(data, periods)>>

\* calculateIndicators: the two moving averages over the bounded windows;
\* RSI, EMA and MACD are null for a series this short
calculateIndicators(marketData) ==
  LET closes == [i \in DOMAIN marketData |-> marketData[i].close]
  IN [sma20 |-> calculateSMA(closes, ShortWindow),
      sma50 |-> calculateSMA(closes, SentimentBars),
      rsi |-> <<>>, macd |-> <<>>]

Signal(indicator, signal, weight) ==
  [indicator |-> indicator, signal |-> signal, weight |-> weight]

\* the moving average, price action and volume branches of the handler
SignalsOf(marketData, indicators) ==
  LET n == Len(marketData)
      latestPrice == marketData[n].close
      prevClose == IF n >= 2 THEN marketData[n - 1].close ELSE latestPrice
      up == (latestPrice - prevClose) * 100 > prevClose
      down == (latestPrice - prevClose) * 100 < 0 - prevClose
      volumes == [i \in DOMAIN marketData |-> marketData[i].volume]
      high == 2 * VolumeWindow * marketData[n].volume
                > 3 * SumLast(volumes, VolumeWindow)
      ma == IF indicators.sma20 # <<>> /\ indicators.sma50 # <<>>
            THEN IF indicators.sma20[1] * SentimentBars
                      > indicators.sma50[1] * ShortWindow
                 THEN <<Signal("Moving Averages", "Bullish", 15)>>
                 ELSE <<Signal("Moving Averages", "Bearish", -15)>>
            ELSE <<>>
      price == IF up THEN <<Signal("Price Action", "Bullish", 10)>>
               ELSE IF down THEN <<Signal("Price Action", "Bearish", -10)>>
               ELSE <<>>
      volume == IF high /\ latestPrice > prevClose
                THEN <<Signal("Volume", "Bullish", 10)>>
                ELSE IF high /\ latestPrice < prevClose
                THEN <<Signal("Volume", "Bearish", -10)>>
                ELSE <<>>
  IN ma \o price \o volume

\* sentimentScore after all the branches
RECURSIVE SentimentScore(_)
SentimentScore(signals) ==
  IF signals = <<>> THEN 0
  ELSE Head(signals).weight + SentimentScore(Tail(signals))

\* label thresholds that take the boundary into the outer class
SentimentLabelInclusive(raw) ==
  IF raw <= -40 THEN "Bearish"
  ELSE IF raw <= -10 THEN "Slightly Bearish"
  ELSE IF raw < 10 THEN "Neutral"
  ELSE IF raw < 40 THEN "Slightly Bullish"
  ELSE "Bullish"

\* `if (sentimentScore < -2) ... else sentiment = 'Bullish'`
SentimentLabel(raw) ==
  IF raw < -40 THEN "Bearish"
  ELSE IF raw < -10 THEN "Slightly Bearish"
  ELSE IF raw < 10 THEN "Neutral"
  ELSE IF raw < 40 THEN "Slightly Bullish"
  ELSE "Bullish"

\* Math.round(Math.max(-100, Math.min(100, sentimentScore * 25))): the
\* product is 5 * raw quarters, Math.round is floor(x + 1/2)
RoundedScore(raw) == (Max(-400, Min(400, 5 * raw)) + 2) \div 4

\* res.json({ symbol, sentiment, score, signals, technicalIndicators });
\* raw is the handler's sentimentScore, which is not sent
SentimentReport(symbol, signals, indicators) ==
  LET raw == SentimentScore(signals)
  IN [symbol |-> symbol, sentiment |-> SentimentLabel(raw),
      score |-> RoundedScore(raw), raw |-> raw,
      signals |-> signals, technicalIndicators |-> indicators]

(***************************************************************************)
(* analysisRoutes: calculateIndicators with the values JavaScript gives    *)
(* A value is a number, null, undefined or NaN; numbers are kept in        *)
(* thousandths and divisions round down. The periods are the bounded ones. *)
(***************************************************************************)
FastPeriod == 2
SlowPeriod == 3
SignalPeriod == 2
RsiPeriod == 2
MaxSeries == 6

Num(v) == [k |-> "number", v |-> v]
Null == [k |-> "null", v |-> 0]
Undefined == [k |-> "undefined", v |-> 0]
NaN == [k |-> "NaN", v |-> 0]
ArrayOf(seq) == [k |-> "array", v |-> seq]
NullArray == [k |-> "null", v |-> <<>>]
Milli(v) == 1000 * v

\* arr[i] of a JavaScript array, i counted from 0
At(arr, i) == IF i >= 0 /\ i < Len(arr) THEN arr[i + 1] ELSE Undefined

\* a - b
JsSub(a, b) ==
  IF a.k = "number" /\ b.k = "number" THEN Num(a.v - b.v) ELSE NaN

\* a > b and a < b: false as soon as one side is undefined or NaN
JsGt(a, b) == a.k = "number" /\ b.k = "number" /\ a.v > b.v
JsLt(a, b) == a.k = "number" /\ b.k = "number" /\ a.v < b.v

\* data.slice(0, periods).reduce((a, b) => a + b, 0) / periods
RECURSIVE JsSum(_)
JsSum(seq) ==
  IF seq = <<>> THEN Num(0)
  ELSE LET rest == JsSum(Tail(seq))
       IN IF Head(seq).k = "number" /\ rest.k = "number"
          THEN Num(Head(seq).v + rest.v) ELSE NaN

JsMean(seq, periods) ==
  LET sum == JsSum(seq)
  IN IF sum.k = "number" THEN Num(sum.v \div periods) ELSE NaN

\* ema = data[i] * k + ema * (1 - k) with k = 2 / (periods + 1)
EmaStep(x, ema, periods) ==
  IF x.k = "number" /\ ema.k = "number"
  THEN Num((2 * x.v + (periods - 1) * ema.v) \div (periods + 1))
  ELSE NaN

\* for (let i = periods; i < data.length; i++) { ...; result.push(ema) }
RECURSIVE EmaLoop(_, _, _, _)
EmaLoop(data, periods, i, ema) ==
  IF i >= Len(data) THEN <<>>
  ELSE LET next == EmaStep(At(data, i), ema, periods)
       IN <<next>> \o EmaLoop(data, periods, i + 1, next)

calculateEMA(data, periods) ==
  IF Len(data) < periods THEN NullArray
  ELSE LET first == JsMean(SubSeq(data, 1, periods), periods)
       IN ArrayOf(<<first>> \o EmaLoop(data, periods, periods, first))

\* calculateSMA with every window, the sum of data.slice(i - periods + 1, i + 1)
SmaSeries(data, periods) ==
  IF Len(data) < periods THEN NullArray
  ELSE ArrayOf([j \in 1..(Len(data) - periods + 1) |->
                  JsMean(SubSeq(data, j, j + periods - 1), periods)])

\* changes.push(data[i] - data[i - 1])
Changes(data) == [i \in 1..(Len(data) - 1) |-> data[i + 1] - data[i]]

RECURSIVE Gains(_)
Gains(window) ==
  IF window = <<>> THEN 0
  ELSE (IF Head(window) > 0 THEN Head(window) ELSE 0) + Gains(Tail(window))

RECURSIVE Losses(_)
Losses(window) ==
  IF window = <<>> THEN 0
  ELSE (IF Head(window) > 0 THEN 0 ELSE 0 - Head(window))
         + Losses(Tail(window))

\* avgLoss === 0 ? 100 : 100 - 100 / (1 + avgGain / avgLoss), which is
\* 100 * gains / (gains + losses)
RsiOfWindow(window) ==
  IF Losses(window) = 0 THEN Num(Milli(100))
  ELSE Num((Milli(100) * Gains(window))
             \div (Gains(window) + Losses(window)))

\* the body of the loop for one i: window = changes.slice(i - periods, i)
RsiAt(changes, periods, i) ==
  RsiOfWindow(SubSeq(changes, i - periods + 1, i))

\* for (let i = periods; i < changes.length; i++)
calculateRSI(data, periods) ==
  IF Len(data) <= periods THEN NullArray
  ELSE LET changes == Changes(data)
       IN IF Len(changes) <= periods THEN ArrayOf(<<>>)
          ELSE ArrayOf([j \in 1..(Len(changes) - periods) |->
                          RsiAt(changes, periods, periods + j - 1)])

\* the MACD line: every i of emaFast with i >= emaSlow.length -
\* emaFast.length, paired with emaSlow[i - (emaSlow.length - emaFast.length)]
MacdLine(emaFast, emaSlow) ==
  LET offset == Len(emaSlow) - Len(emaFast)
      start == Max(0, offset)
  IN IF Len(emaFast) <= start THEN <<>>
     ELSE [j \in 1..(Len(emaFast) - start) |->
             JsSub(At(emaFast, start + j - 1),
                   At(emaSlow, start + j - 1 - offset))]

\* histogram.push(macdLine[i + (macdLine.length - signalLine.length)]
\*                  - signalLine[i])
Histogram(macdLine, signalLine) ==
  [j \in 1..Len(signalLine) |->
     JsSub(At(macdLine, j - 1 + (Len(macdLine) - Len(signalLine))),
           At(signalLine, j - 1))]

calculateMACD(data, fast, slow, signal) ==
  IF Len(data) < Max(fast, slow) + signal
  THEN [k |-> "null", macdLine |-> <<>>, signalLine |-> <<>>,
        histogram |-> <<>>]
  ELSE LET emaFast == calculateEMA(data, fast).v
           emaSlow == calculateEMA(data, slow).v
           macdLine == MacdLine(emaFast, emaSlow)
           signalLine == calculateEMA(macdLine, signal).v
       IN [k |-> "object", macdLine |-> macdLine, signalLine |-> signalLine,
           histogram |-> Histogram(macdLine, signalLine)]

\* arr ? arr[arr.length - 1] : null
getLatestValue(arr) ==
  IF arr.k = "null" THEN Null ELSE At(arr.v, Len(arr.v) - 1)

\* closes as numbers
Prices(closes) == [i \in DOMAIN closes |-> Num(Milli(closes[i]))]

\* the object calculateIndicators returns for a series that is not empty
technicalIndicators(closes) ==
  LET data == Prices(closes)
      macd == calculateMACD(data, FastPeriod, SlowPeriod, SignalPeriod)
      part(arr) == IF macd.k = "null" THEN Null
                   ELSE getLatestValue(ArrayOf(arr))
  IN [sma20 |-> getLatestValue(SmaSeries(data, ShortWindow)),
      sma50 |-> getLatestValue(SmaSeries(data, SentimentBars)),
      ema12 |-> getLatestValue(calculateEMA(data, FastPeriod)),
      ema26 |-> getLatestValue(calculateEMA(data, SlowPeriod)),
      rsi |-> getLatestValue(calculateRSI(closes, RsiPeriod)),
      macd |-> [line |-> part(macd.macdLine),
                signal |-> part(macd.signalLine),
                histogram |-> part(macd.histogram)]]

\* the RSI branch of the sentiment handler; indicators.rsi.toFixed(2)
\* throws a TypeError when rsi is undefined
RsiSignals(rsi) ==
  IF rsi.k = "null" THEN [threw |-> FALSE, signals |-> <<>>]
  ELSE IF rsi.k = "undefined" THEN [threw |-> TRUE, signals |-> <<>>]
  ELSE [threw |-> FALSE,
        signals |->
          IF JsLt(rsi, Num(Milli(30))) THEN <<Signal("RSI", "Bullish", 20)>>
          ELSE IF JsGt(rsi, Num(Milli(70)))
          THEN <<Signal("RSI", "Bearish", -20)>>
          ELSE IF JsGt(rsi, Num(Milli(50)))
          THEN <<Signal("RSI", "Neutral-Bullish", 4)>>
          ELSE <<Signal("RSI", "Neutral-Bearish", -4)>>]

\* marketData[marketData.length - 2].macd?.histogram: the bars of the store
\* and of the generator have no macd property
PreviousBarHistogram(marketData) == Undefined

\* the MACD branch of the sentiment handler
MacdSignals(macd, marketData) ==
  IF macd.line.k = "null" \/ macd.signal.k = "null" THEN <<>>
  ELSE (IF JsGt(macd.line, macd.signal)
        THEN <<Signal("MACD", "Bullish", 15)>>
        ELSE <<Signal("MACD", "Bearish", -15)>>)
       \o (IF macd.histogram.k = "null" THEN <<>>
           ELSE IF JsGt(macd.histogram, Num(0))
                   /\ JsGt(macd.histogram, PreviousBarHistogram(marketData))
           THEN <<Signal("MACD Histogram", "Bullish", 10)>>
           ELSE IF JsLt(macd.histogram, Num(0))
                   /\ JsLt(macd.histogram, PreviousBarHistogram(marketData))
           THEN <<Signal("MACD Histogram", "Bearish", -10)>>
           ELSE <<>>)

\* the sentiment handler from calculateIndicators to the response, for a
\* series that is not empty
SentimentAnalysis(symbol, marketData) ==
  LET closes == [i \in DOMAIN marketData |-> marketData[i].close]
      indicators == technicalIndicators(closes)
      rsi == RsiSignals(indicators.rsi)
  IN IF rsi.threw
     THEN [status |-> 500,
           body |-> [NoBody EXCEPT !.kind = "error"]]
     ELSE [status |-> 200,
           body |-> [NoBody EXCEPT
                       !.kind = "sentiment",
                       !.data = SentimentReport(
                                  symbol,
                                  rsi.signals
                                    \o MacdSignals(indicators.macd, marketData)
                                    \o SignalsOf(marketData,
                                         calculateIndicators(marketData)),
                                  indicators)]]

(***************************************************************************)
(* getMarketAlerts and the metrics route, after their reads                *)
(* The windows are the bounded ones: VolumeWindow for 10, ShortWindow for  *)
(* 20, SentimentBars for 50 (also the number of bars the alerts read),     *)
(* LongWindow for 200 and MetricsBars for the 500 bars the metrics read.   *)
(***************************************************************************)
LongWindow == 4
MetricsBars == 5

PriceMovement == "Significant price movement"
UnusualVolume == "Unusual volume detected"
Consolidation == "Price consolidation detected"
CrossedAbove == "Bullish signal: 20-period SMA crossed above 50-period SMA"
CrossedBelow == "Bearish signal: 20-period SMA crossed below 50-period SMA"

ClosesOf(marketData) == [i \in DOMAIN marketData |-> marketData[i].close]

VolumesOf(marketData) == [i \in DOMAIN marketData |-> marketData[i].volume]

\* marketData.slice(-n)
LastBars(marketData, n) ==
  SubSeq(marketData, Max(1, Len(marketData) - n + 1), Len(marketData))

\* calcSMA(data, periods) times periods: closes.slice(-periods) summed
calcSMA(data, periods) == SumLast(ClosesOf(data), periods)

\* |priceChange| > 0.01 with prevPrice = marketData[length - 2]?.close ||
\* latestPrice
PriceMoveAlert(marketData) ==
  LET n == Len(marketData)
      latestPrice == marketData[n].close
      prevPrice == IF n >= 2 /\ marketData[n - 1].close # 0
                   THEN marketData[n - 1].close ELSE latestPrice
      change == latestPrice - prevPrice
  IN IF 100 * (IF change < 0 THEN 0 - change ELSE change) > prevPrice
     THEN <<PriceMovement>> ELSE <<>>

\* avgVolume is the sum of marketData.slice(-10) divided by 10 for any number
\* of bars; latestVolume > avgVolume * 1.5
VolumeSpikeAlert(marketData) ==
  LET latestVolume == marketData[Len(marketData)].volume
      sum == SumLast(VolumesOf(marketData), VolumeWindow)
  IN IF 2 * VolumeWindow * latestVolume > 3 * sum
     THEN <<UnusualVolume>> ELSE <<>>

\* (recentHigh - recentLow) / recentLow < 0.005 over marketData.slice(-10)
ConsolidationAlert(marketData) ==
  LET recent == LastBars(marketData, VolumeWindow)
      recentHigh == CHOOSE h \in {recent[i].high : i \in DOMAIN recent} :
                      \A i \in DOMAIN recent : recent[i].high <= h
      recentLow == CHOOSE l \in {recent[i].low : i \in DOMAIN recent} :
                     \A i \in DOMAIN recent : recent[i].low >= l
  IN IF 1000 * (recentHigh - recentLow) < 5 * recentLow
     THEN <<Consolidation>> ELSE <<>>

\* if (marketData.length >= 50) { ... }: yesterdayData is
\* marketData.slice(0, -1), and both of its averages divide by their
\* nominal period
CrossoverAlert(marketData) ==
  IF Len(marketData) < SentimentBars THEN <<>>
  ELSE LET yesterdayData == SubSeq(marketData, 1, Len(marketData) - 1)
           sma20Today == calcSMA(marketData, ShortWindow)
           sma50Today == calcSMA(marketData, SentimentBars)
           sma20Yesterday == calcSMA(yesterdayData, ShortWindow)
           sma50Yesterday == calcSMA(yesterdayData, SentimentBars)
           below(s20, s50) == SentimentBars * s20 < ShortWindow * s50
           above(s20, s50) == SentimentBars * s20 > ShortWindow * s50
       IN IF below(sma20Yesterday, sma50Yesterday)
               /\ above(sma20Today, sma50Today)
          THEN <<CrossedAbove>>
          ELSE IF above(sma20Yesterday, sma50Yesterday)
                    /\ below(sma20Today, sma50Today)
          THEN <<CrossedBelow>>
          ELSE <<>>

\* getMarketAlerts after `await getLatestMarketData(symbol, 50)`
getMarketAlerts(marketData) ==
  IF Len(marketData) = 0 THEN <<>>
  ELSE PriceMoveAlert(marketData) \o VolumeSpikeAlert(marketData)
         \o ConsolidationAlert(marketData) \o CrossoverAlert(marketData)

Infinity == [k |-> "Infinity", v |-> 0]

\* JSON.stringify writes NaN and Infinity as null
Json(x) == IF x.k = "number" THEN x ELSE Null

\* (close[i] - close[i-1]) / close[i-1], in thousandths
Returns(closes) ==
  [i \in 1..(Len(closes) - 1) |->
     (1000 * (closes[i + 1] - closes[i])) \div closes[i]]

RECURSIVE SumProducts(_, _)
SumProducts(a, b) ==
  IF a = <<>> THEN 0
  ELSE Head(a) * Head(b) + SumProducts(Tail(a), Tail(b))

\* Math.sqrt(sum of r * r / returns.length) * Math.sqrt(252) * 100, in
\* tenths of a percent; 0 / 0 is NaN
Volatility(returns) ==
  IF Len(returns) = 0 THEN NaN
  ELSE Num(ISqrt((252 * SumProducts(returns, returns)) \div Len(returns)))

\* covariance / marketVariance over the last minLength returns of both, in
\* thousandths
Beta(returns, marketReturns) ==
  LET minLength == Min(Len(returns), Len(marketReturns))
      stock == SubSeq(returns, Len(returns) - minLength + 1, Len(returns))
      market == SubSeq(marketReturns, Len(marketReturns) - minLength + 1,
                       Len(marketReturns))
      covariance == minLength * SumProducts(stock, market)
                      - SumLast(stock, minLength) * SumLast(market, minLength)
      marketVariance == minLength * SumProducts(market, market)
                          - SumLast(market, minLength)
                              * SumLast(market, minLength)
  IN IF minLength = 0 THEN NaN
     ELSE IF marketVariance = 0
     THEN IF covariance = 0 THEN NaN ELSE Infinity
     ELSE Num((1000 * covariance) \div marketVariance)

\* the metrics handler after its reads: marketData is the answer to
\* getLatestMarketData(symbol, 500), spyData the one to
\* getLatestMarketData('SPY', annually) when the symbol is not SPY
TradingMetrics(symbol, marketData, spyData) ==
  LET closes == ClosesOf(marketData)
      n == Len(marketData)
      returns == Returns(closes)
      beta == IF symbol # SPY /\ Len(spyData) > 0
              THEN Beta(returns, Returns(ClosesOf(spyData)))
              ELSE Num(1000)
  IN [symbol |-> symbol,
      currentPrice |-> Num(Milli(closes[n])),
      volatility |-> Json(Volatility(returns)),
      beta |-> Json(beta),
      ma50 |-> Num(Milli(SumLast(closes, SentimentBars)) \div SentimentBars),
      ma200 |-> Num(Milli(SumLast(closes, Min(LongWindow, n)))
                      \div Min(LongWindow, n))]

(***************************************************************************)
(* What the caller does when the service call returns                      *)
(***************************************************************************)
Emit(src, name, symbol, message, to, tk) ==
  [src |-> src, name |-> name, symbol |-> symbol, message |-> message,
   to |-> to, tickNo |-> tk.tickNo, fpath |-> tk.fpath, path |-> tk.path,
   data |-> tk.result]

Finished(tk) == [tk EXCEPT !.pc = "done"]

\* only the latest completed call is kept for inspection: completing task t
\* forgets the calls completed before it
Retire(ts, t) ==
  [u \in TaskIds |-> IF u # t /\ ts[u].pc = "done" THEN IdleTask ELSE ts[u]]

\* a loop that gives up the tick after a failed fetch
TickAbortsOnFailure(tk) == tk.idx < Len(TickSymbols) /\ tk.fpath # "fmd_catch"

\* the cron loop goes on to the next symbol after every fetch
TickContinues(tk) == tk.idx < Len(TickSymbols)

\* cron.schedule: after `await fetchMarketData(symbol)`
DeliverTick(t, tk, rs) ==
  LET sent == Len(tk.result) > 0
      tk2 == [tk EXCEPT !.log = Append(@, [symbol |-> tk.symbol,
                                           fpath |-> tk.fpath,
                                           sent |-> sent])]
  IN /\ emitted' = IF sent
                   THEN {Emit("tick", "marketUpdate:", tk.symbol, "", conns, tk)}
                   ELSE emitted
     /\ tasks' = [Retire(tasks, t) EXCEPT ![t] =
                    IF TickContinues(tk)
                    THEN CallFetch([tk2 EXCEPT !.idx = @ + 1],
                                   TickSymbols[tk.idx + 1], rs)
                    ELSE [tk2 EXCEPT !.pc = "done", !.result = <<>>]]

\* router.get('/') and router.get('/ohlc'): after `await getLatestMarketData`
DeliverHttp(t, tk, c0) ==
  IF Len(tk.result) = 0
  THEN /\ tasks' = [Retire(tasks, t) EXCEPT ![t] =
                      [tk EXCEPT !.pc = "done", !.status = 404,
                                 !.outcome = "nodata"]]
       /\ cache' = c0
  ELSE LET body == RouteBody(tk.req, tk.result, clock)
       IN /\ tasks' = [Retire(tasks, t) EXCEPT ![t] =
                         [tk EXCEPT !.pc = "done", !.status = 200,
                                    !.outcome = "data", !.xcache = "MISS",
                                    !.body = body]]
          /\ cache' = CacheSet(c0, CacheKey(tk.req), body,
                               RouteTtl(tk.req.path), clock)

\* a connection handler that also hands the newcomer the last broadcast
DeliverSocketReplaying(t, tk) ==
  LET to == {tk.conn} \cap conns
      some == Len(tk.result) > 0
      missed == {e \in emitted : e.src = "tick" /\ tk.conn \notin e.to}
  IN /\ tasks' = [Retire(tasks, t) EXCEPT ![t] =
                    [tk EXCEPT !.pc = "done",
                               !.outcome = IF some THEN "data" ELSE "nodata"]]
     /\ emitted' =
          IF tk.op = "connect" /\ missed # {}
          THEN {[e EXCEPT !.to = to] : e \in missed}
          ELSE {Emit("socket", "marketUpdate", <<>>, "", to, tk)}

\* the socket handlers: the .then of getLatestMarketData
DeliverSocket(t, tk) ==
  LET to == {tk.conn} \cap conns
      some == Len(tk.result) > 0
  IN /\ tasks' = [Retire(tasks, t) EXCEPT ![t] =
                    [tk EXCEPT !.pc = "done",
                               !.outcome = IF some THEN "data" ELSE "nodata"]]
     /\ emitted' =
          IF tk.op = "subscribe"
          THEN IF some
               THEN {Emit("socket", "marketUpdate:", tk.symbol, "", to, tk)}
               ELSE emitted
          ELSE IF some
               THEN {Emit("socket", "marketUpdate", <<>>, "", to, tk)}
               ELSE {Emit("socket", "marketError", <<>>,
                          IF tk.op = "connect" THEN "No market data available"
                          ELSE "No updated market data available", to, tk)}

\* app.post('/api/prediction'): after `await getLatestMarketData`
DeliverPrediction(t, tk) ==
  tasks' = [Retire(tasks, t) EXCEPT ![t] =
              IF Len(tk.result) = 0
              THEN [tk EXCEPT !.pc = "done", !.status = 400,
                              !.outcome = "nodata"]
              ELSE [tk EXCEPT !.pc = "done", !.status = 200,
                              !.outcome = "data",
                              !.body = [NoBody EXCEPT !.kind = "predictions",
                                                      !.symbol = tk.symbol]]]

\* router.get('/sentiment'): after `await getLatestMarketData(symbol, 50)`
DeliverSentiment(t, tk) ==
  tasks' = [Retire(tasks, t) EXCEPT ![t] =
              IF Len(tk.result) = 0
              THEN [tk EXCEPT !.pc = "done", !.status = 404,
                              !.outcome = "nodata"]
              ELSE LET indicators == calculateIndicators(tk.result)
                   IN [tk EXCEPT
                         !.pc = "done", !.status = 200, !.outcome = "data",
                         !.body = [NoBody EXCEPT
                                     !.kind = "sentiment",
                                     !.data = SentimentReport(
                                                tk.symbol,
                                                SignalsOf(tk.result, indicators),
                                                indicators)]]]

Deliver(t, tk, c0, rs) ==
  CASE tk.op = "tick" -> DeliverTick(t, tk, rs) /\ cache' = c0
    [] tk.op = "http" -> DeliverHttp(t, tk, c0) /\ UNCHANGED emitted
    [] tk.op \in {"connect", "refresh", "subscribe"} ->
         DeliverSocket(t, tk) /\ cache' = c0
    [] tk.op = "prediction" ->
         DeliverPrediction(t, tk) /\ cache' = c0 /\ UNCHANGED emitted
    [] tk.op = "sentiment" ->
         DeliverSentiment(t, tk) /\ cache' = c0 /\ UNCHANGED emitted
    [] OTHER -> /\ tasks' = [Retire(tasks, t) EXCEPT ![t] = Finished(tk)]
                /\ cache' = c0
                /\ UNCHANGED emitted

\* one step of task t: the store after it, the task after it
Commit(t, tk, st, c0, rs) ==
  /\ store' = st
  /\ IF tk.pc = "ret" THEN Deliver(t, tk, c0, rs)
     ELSE /\ tasks' = [Retire(tasks, t) EXCEPT ![t] = tk]
          /\ cache' = c0
          /\ UNCHANGED emitted

(***************************************************************************)
(* The awaits of marketDataService                                         *)
(***************************************************************************)
GsdFind(t, ok, rs) ==
  /\ tasks[t].pc = "gsd_find"
  /\ Commit(t, AfterGsdFind(tasks[t], ok, rs), store, cache, rs)
  /\ UNCHANGED <<clock, conns, subs, ticks, serviceMock>>

GsdInsert(t, ok, rs) ==
  /\ tasks[t].pc = "gsd_insert"
  /\ Commit(t, AfterGsdInsert(tasks[t], ok, rs),
            IF ok THEN InsertMany(store, tasks[t].batch) ELSE store, cache, rs)
  /\ UNCHANGED <<clock, conns, subs, ticks, serviceMock>>

GlmdRead(t, ok, rs) ==
  /\ tasks[t].pc = "glmd_read"
  /\ Commit(t, AfterGlmdRead(tasks[t], ok, rs), store, cache, rs)
  /\ UNCHANGED <<clock, conns, subs, ticks, serviceMock>>

FmdFindOne(t, ok, rs) ==
  /\ tasks[t].pc = "fmd_findOne"
  /\ Commit(t, AfterFmdFindOne(tasks[t], ok, rs), store, cache, rs)
  /\ UNCHANGED <<clock, conns, subs, ticks, serviceMock>>

FmdSave(t, ok, rs) ==
  /\ tasks[t].pc = "fmd_save"
  /\ Commit(t, AfterFmdSave(tasks[t], ok, rs),
            IF ok THEN Save(store, tasks[t].point).store ELSE store, cache, rs)
  /\ UNCHANGED <<clock, conns, subs, ticks, serviceMock>>

\* time passes
AdvanceClock(d) ==
  /\ clock + d <= MaxClock
  /\ clock' = clock + d
  /\ UNCHANGED <<store, tasks, cache, conns, subs, emitted, ticks, serviceMock>>

(***************************************************************************)
(* Direct calls of the service (as the integration tests make them)        *)
(***************************************************************************)
NewTask(op) == [IdleTask EXCEPT !.op = op]

CallGenerateSampleData(t, symbol, numPoints, rs) ==
  /\ Slot(t)
  /\ Commit(t, CallGsd([NewTask("gsd") EXCEPT !.symbol = symbol],
                       numPoints, "top", rs), store, cache, rs)
  /\ UNCHANGED <<clock, conns, subs, ticks, serviceMock>>

CallGetLatestMarketData(t, symbol, limit, rs) ==
  /\ Slot(t)
  /\ Commit(t, CallGetLatest(NewTask("glmd"), symbol, limit, rs),
            store, cache, rs)
  /\ UNCHANGED <<clock, conns, subs, ticks, serviceMock>>

CallFetchHistoricalData(t, symbol, period, rs) ==
  /\ Slot(t)
  /\ Commit(t, CallHistorical(NewTask("fhd"), symbol, period, rs),
            store, cache, rs)
  /\ UNCHANGED <<clock, conns, subs, ticks, serviceMock>>

CallFetchMarketData(t, symbol, rs) ==
  /\ Slot(t)
  /\ Commit(t, CallFetch(NewTask("fmd"), symbol, rs), store, cache, rs)
  /\ UNCHANGED <<clock, conns, subs, ticks, serviceMock>>

(***************************************************************************)
(* marketRoutes: GET /api/market, GET /api/market/ohlc, POST invalidate    *)
(***************************************************************************)
Respond(t, tk) == tasks' = [Retire(tasks, t) EXCEPT ![t] = Finished(tk)]

\* validators, validate, cacheMiddleware, then the handler up to its await
HttpGet(t, req, rs) ==
  /\ Slot(t)
  /\ LET tk0 == [NewTask("http") EXCEPT !.req = req]
         key == CacheKey(req)
         tk1 == [tk0 EXCEPT !.touched = {"cache"}]
     IN IF ~RequestValid(req)
        THEN /\ Respond(t, [tk0 EXCEPT !.status = 400, !.outcome = "validation"])
             /\ UNCHANGED <<store, cache, emitted>>
        ELSE IF CacheHit(cache, key, clock)
        THEN /\ Respond(t, [tk1 EXCEPT !.status = 200, !.outcome = "data",
                                       !.xcache = "HIT", !.body = cache[key].v])
             /\ UNCHANGED <<store, cache, emitted>>
        ELSE IF serviceMock = "reject"
        THEN /\ Respond(t, [tk1 EXCEPT !.status = 500, !.outcome = "error",
                                       !.touched = @ \cup {"service"}])
             /\ cache' = CacheAfterGet(cache, key, clock)
             /\ UNCHANGED <<store, emitted>>
        ELSE IF serviceMock = "empty"
        THEN Commit(t, [tk1 EXCEPT !.pc = "ret",
                                   !.touched = @ \cup {"service"}],
                    store, CacheAfterGet(cache, key, clock), rs)
        ELSE Commit(t, CallGetLatest(tk1, QuerySymbol(req.query),
                                     QueryLimit(req.query), rs),
                    store, CacheAfterGet(cache, key, clock), rs)
  /\ UNCHANGED <<clock, conns, subs, ticks, serviceMock>>

\* router.post('/invalidate-cache'): check('symbol').isLength(1..10)
PostInvalidateCache(t, symbol) ==
  /\ Slot(t)
  /\ LET tk0 == [NewTask("invalidate") EXCEPT !.symbol = symbol]
     IN IF Len(symbol) < 1 \/ Len(symbol) > SymbolMaxLen
        THEN /\ Respond(t, [tk0 EXCEPT !.status = 400, !.outcome = "validation"])
             /\ cache' = cache
        ELSE /\ Respond(t, [tk0 EXCEPT !.status = 200, !.outcome = "done",
                                       !.touched = {"cache"},
                                       !.matchingKeys =
                                          {k \in DOMAIN cache :
                                             Includes(k, symbol)}])
             /\ cache' = invalidateCache(cache, symbol)
  /\ UNCHANGED <<clock, store, conns, subs, emitted, ticks, serviceMock>>

(***************************************************************************)
(* server.js: POST /api/prediction, the socket handlers, the cron tick     *)
(***************************************************************************)
\* app.post('/api/prediction') up to `await getLatestMarketData`
PostPrediction(t, symbol, limit, rs) ==
  /\ Slot(t)
  /\ LET tk0 == [NewTask("prediction") EXCEPT !.symbol = symbol,
                                              !.limit = limit]
     IN IF Len(symbol) = 0 \/ limit <= 0 \/ limit > RouteMaxLimit
        THEN /\ Respond(t, [tk0 EXCEPT !.status = 400, !.outcome = "validation"])
             /\ UNCHANGED <<store, cache, emitted>>
        ELSE Commit(t, CallGetLatest(tk0, symbol, limit, rs), store, cache, rs)
  /\ UNCHANGED <<clock, conns, subs, ticks, serviceMock>>

\* io.on('connection'): the default subscription and the initial data
Connect(c, t, rs) ==
  /\ c \notin conns
  /\ Slot(t)
  /\ conns' = conns \cup {c}
  /\ subs' = [subs EXCEPT ![c] = {SPY}]
  /\ Commit(t, CallGetLatest([NewTask("connect") EXCEPT !.conn = c],
                             SPY, DefaultPoints, rs), store, cache, rs)
  /\ UNCHANGED <<clock, ticks, serviceMock>>

\* socket.on('disconnect'): the socket and its closure are gone
Disconnect(c) ==
  /\ c \in conns
  /\ conns' = conns \ {c}
  /\ subs' = [subs EXCEPT ![c] = {}]
  /\ UNCHANGED <<clock, store, tasks, cache, emitted, ticks, serviceMock>>

\* socket.on('requestDataRefresh', ({ symbol, limit }))
RequestDataRefresh(c, t, symbol, limit, rs) ==
  /\ c \in conns
  /\ Slot(t)
  /\ Commit(t, CallGetLatest([NewTask("refresh") EXCEPT !.conn = c],
                             symbol, limit, rs), store, cache, rs)
  /\ UNCHANGED <<clock, conns, subs, ticks, serviceMock>>

\* a subscription set shared by all the sockets instead of one per closure
SubscribeSymbolShared(c, t, symbol, rs) ==
  /\ c \in conns
  /\ IF Len(symbol) > 0
     THEN /\ Slot(t)
          /\ subs' = [d \in ConnIds |->
                        IF d \in conns THEN subs[d] \cup {toUpperCase(symbol)}
                        ELSE subs[d]]
          /\ Commit(t, CallGetLatest([NewTask("subscribe") EXCEPT !.conn = c],
                                     symbol, DefaultPoints, rs),
                    store, cache, rs)
     ELSE UNCHANGED <<subs, store, tasks, cache, emitted>>
  /\ UNCHANGED <<clock, conns, ticks, serviceMock>>

\* socket.on('subscribeSymbol', symbol)
SubscribeSymbol(c, t, symbol, rs) ==
  /\ c \in conns
  /\ IF Len(symbol) > 0
     THEN /\ Slot(t)
          /\ subs' = [subs EXCEPT ![c] = @ \cup {toUpperCase(symbol)}]
          /\ Commit(t, CallGetLatest([NewTask("subscribe") EXCEPT !.conn = c],
                                     symbol, DefaultPoints, rs),
                    store, cache, rs)
     ELSE UNCHANGED <<subs, store, tasks, cache, emitted>>
  /\ UNCHANGED <<clock, conns, ticks, serviceMock>>

\* socket.on('unsubscribeSymbol', symbol)
UnsubscribeSymbol(c, symbol) ==
  /\ c \in conns
  /\ subs' = [subs EXCEPT ![c] = @ \ {toUpperCase(symbol)}]
  /\ UNCHANGED <<clock, store, tasks, cache, conns, emitted, ticks, serviceMock>>

\* cron.schedule('* * * * *'): the tick starts with the first symbol
CronTick(t, rs) ==
  /\ Slot(t)
  /\ ticks < MaxTicks
  /\ ticks' = ticks + 1
  /\ Commit(t, CallFetch([NewTask("tick") EXCEPT !.idx = 1,
                                                 !.tickNo = ticks + 1],
                         TickSymbols[1], rs), store, cache, rs)
  /\ UNCHANGED <<clock, conns, subs, serviceMock>>

\* GET /api/analysis/sentiment?symbol=...: validateRequest, then the handler
\* up to its await.  The call remembers what the previous call for the
\* symbol answered and the store it left.
GetSentiment(t, symbol, rs) ==
  /\ Slot(t)
  /\ IF ~MatchesSymbolRegex(symbol)
     THEN /\ Respond(t, [NewTask("sentiment") EXCEPT !.symbol = symbol,
                                                     !.status = 400,
                                                     !.outcome = "invalid"])
          /\ UNCHANGED <<store, cache, emitted>>
     ELSE LET before ==
                IF tasks[t].op = "sentiment" /\ tasks[t].status = 200
                   /\ tasks[t].symbol = symbol
                THEN <<[report |-> tasks[t].body.data, path |-> tasks[t].path,
                        store |-> store]>>
                ELSE <<>>
          IN Commit(t, CallGetLatest([NewTask("sentiment") EXCEPT
                                        !.log = before],
                                     symbol, SentimentBars, rs),
                    store, cache, rs)
  /\ UNCHANGED <<clock, conns, subs, ticks, serviceMock>>

(***************************************************************************)
(* Spec: the service and the store under concurrent calls                  *)
(***************************************************************************)
Init ==
  /\ clock = 0
  /\ store = {}
  /\ tasks = [t \in TaskIds |-> IdleTask]
  /\ cache = <<>>
  /\ conns = {}
  /\ subs = [c \in ConnIds |-> {}]
  /\ emitted = {}
  /\ ticks = 0
  /\ serviceMock = "none"

\* the calls tried: <<symbol, limit>>
Reads == {<<SPY, 1>>, <<SPY, RouteMaxLimit>>, <<AAPL, 1>>}

StepGsdFind == \E t \in TaskIds, rs \in LowDraws : GsdFind(t, TRUE, rs)
StepGsdInsert == \E t \in TaskIds, rs \in LowDraws : GsdInsert(t, TRUE, rs)
StepGlmdRead == \E t \in TaskIds, rs \in LowDraws : GlmdRead(t, TRUE, rs)
StepFmdFindOne == \E t \in TaskIds, rs \in DrawSeqs : FmdFindOne(t, TRUE, rs)
StepFmdSave == \E t \in TaskIds, rs \in LowDraws : FmdSave(t, TRUE, rs)

ReadLatest ==
  \E t \in TaskIds, c \in Reads, rs \in LowDraws :
     CallGetLatestMarketData(t, c[1], c[2], rs)

Advance ==
  \E t \in TaskIds, rs \in LowDraws : CallFetchMarketData(t, SPY, rs)

TimePasses == \E d \in {BarSpacing} : AdvanceClock(d)

Next ==
  \/ StepGsdFind \/ StepGsdInsert \/ StepGlmdRead
  \/ StepFmdFindOne \/ StepFmdSave
  \/ ReadLatest \/ Advance \/ TimePasses

Spec == Init /\ [][Next]_vars

(***************************************************************************)
(* SpecHttp: every entry path, with valid and invalid input                *)
(***************************************************************************)
\* "none": the real service; "empty", "reject": the service double of the
\* route tests resolving [] or rejecting
ServiceModes == {"none", "empty", "reject"}

InitHttp ==
  /\ clock = 0
  /\ store = {}
  /\ tasks = [t \in TaskIds |-> IdleTask]
  /\ cache = <<>>
  /\ conns = {}
  /\ subs = [c \in ConnIds |-> {}]
  /\ emitted = {}
  /\ ticks = 0
  /\ serviceMock \in ServiceModes

Query(name, value) == <<name, value>>

HttpQueries ==
  {<<>>,
   <<Query(ParamSymbol, <<"s", "p", "y">>)>>,
   <<Query(ParamSymbol, TOOLONG)>>,
   <<Query(ParamLimit, FormatInt(1))>>,
   <<Query(ParamLimit, FormatInt(0))>>,
   <<Query(ParamLimit, FormatInt(RouteMaxLimit + 1))>>}

HttpRequests == {[path |-> PathMarket, query |-> q] : q \in HttpQueries}

SocketSymbols == {SPY, TOOLONG}
SocketLimits == {0, DefaultPoints}

GetMarket ==
  \E t \in TaskIds, req \in HttpRequests, rs \in LowDraws : HttpGet(t, req, rs)

Predict ==
  \E t \in TaskIds, symbol \in {<<>>, SPY, TOOLONG}, limit \in {0, 1},
     rs \in LowDraws :
     serviceMock = "none" /\ PostPrediction(t, symbol, limit, rs)

SocketConnects ==
  \E c \in {1}, t \in TaskIds, rs \in LowDraws :
     serviceMock = "none" /\ Connect(c, t, rs)

SocketRefresh ==
  \E c \in ConnIds, t \in TaskIds, symbol \in SocketSymbols,
     limit \in SocketLimits, rs \in LowDraws :
     RequestDataRefresh(c, t, symbol, limit, rs)

SocketSubscribe ==
  \E c \in ConnIds, t \in TaskIds, symbol \in SocketSymbols, rs \in LowDraws :
     SubscribeSymbol(c, t, symbol, rs)

StepHttp ==
  \E t \in TaskIds, rs \in LowDraws :
     \/ GsdFind(t, TRUE, rs)
     \/ GsdInsert(t, TRUE, rs)
     \/ GlmdRead(t, TRUE, rs)

NextHttp ==
  \/ GetMarket \/ Predict \/ SocketConnects \/ SocketRefresh
  \/ SocketSubscribe \/ StepHttp

SpecHttp == InitHttp /\ [][NextHttp]_vars

(***************************************************************************)
(* SpecCache: cached routes, invalidation and the clock                    *)
(***************************************************************************)
CacheRequests ==
  {[path |-> PathMarket, query |-> <<>>],
   [path |-> PathMarket,
    query |-> <<Query(ParamSymbol, SPY), Query(ParamLimit, FormatInt(1))>>],
   [path |-> PathMarket,
    query |-> <<Query(ParamLimit, FormatInt(1)), Query(ParamSymbol, SPY)>>],
   [path |-> PathOhlc, query |-> <<Query(ParamSymbol, AAPL)>>]}

Patterns == {SPY, AAPL, <<>>}

\* one GET in flight at a time; an invalidation may arrive during it
GetCached ==
  \E t \in {1}, req \in CacheRequests, rs \in LowDraws : HttpGet(t, req, rs)

Invalidate ==
  \E t \in TaskIds, p \in Patterns : PostInvalidateCache(t, p)

StepCached ==
  \E t \in TaskIds, rs \in LowDraws :
     \/ GsdFind(t, TRUE, rs)
     \/ GsdInsert(t, TRUE, rs)
     \/ GlmdRead(t, TRUE, rs)

CacheTimePasses ==
  \E d \in {TtlLatest} : clock + d <= CacheHorizon /\ AdvanceClock(d)

NextCache == GetCached \/ Invalidate \/ StepCached \/ CacheTimePasses

SpecCache == Init /\ [][NextCache]_vars

(***************************************************************************)
(* SpecTick: the cron tick, the sockets and a store that may fail          *)
(***************************************************************************)
\* tick k + 1 fires k minutes after the start
TickFires ==
  \E t \in TaskIds, rs \in LowDraws :
     clock = ticks * TickPeriod /\ CronTick(t, rs)

\* a tick is over before the next minute starts
MinutePasses ==
  \E d \in {TickPeriod} :
     /\ clock + d <= ticks * TickPeriod
     /\ \A t \in TaskIds : Free(t)
     /\ AdvanceClock(d)

\* the store read and the save of fetchMarketData either succeed or reject
StepTick ==
  \E t \in TaskIds, ok \in BOOLEAN, rs \in LowDraws :
     \/ GsdFind(t, TRUE, rs)
     \/ GsdInsert(t, TRUE, rs)
     \/ GlmdRead(t, TRUE, rs)
     \/ FmdFindOne(t, ok, rs)
     \/ FmdSave(t, ok, rs)

\* one client; it connects once
ClientConnects ==
  \E c \in {1}, t \in TaskIds, rs \in LowDraws : Connect(c, t, rs)

ClientUnsubscribes ==
  \E c \in ConnIds, symbol \in {SPY, AAPL} : UnsubscribeSymbol(c, symbol)

NextTick ==
  \/ TickFires \/ MinutePasses \/ StepTick
  \/ ClientConnects \/ ClientUnsubscribes

SpecTick == Init /\ [][NextTick]_vars

(***************************************************************************)
(* Properties of the store and of getLatestMarketData                      *)
(***************************************************************************)
SameKey(b, c) == b.symbol = c.symbol /\ b.timestamp = c.timestamp

UniqueKeys == \A b, c \in store : SameKey(b, c) => b = c

\* a step never replaces a stored bar by another bar of the same key
NotOverwritten == \A b \in store : \A c \in store' : SameKey(b, c) => c = b

\* a save() whose key is in the store leaves the store alone and fails with
\* the duplicate-key error
SaveRejected ==
  \A t \in TaskIds :
     (/\ tasks[t].op = "fmd" /\ tasks[t].pc = "fmd_save"
      /\ tasks'[t].pc # "fmd_save"
      /\ KeyPresent(store, CastDoc(tasks[t].point)))
     => (store' = store /\ tasks'[t].err = "dup")

\* C1: the store holds at most one bar per (symbol, timestamp); a write
\* whose key is already stored is rejected and the stored bar stays as
\* it was.
C1_UniqueKey == []UniqueKeys /\ [][NotOverwritten /\ SaveRejected]_vars

\* a save() was rejected for its key and the stored bar of that key is there
C1_Witness ==
  \E t \in TaskIds :
     /\ tasks[t].op = "fmd" /\ tasks[t].pc = "done" /\ tasks[t].err = "dup"
     /\ \E b \in store : b.symbol = tasks[t].symbol /\ b.timestamp = clock

\* the bars getLatestMarketData returns from the store, seen at the read
ReadReturns(t) ==
  /\ tasks[t].pc = "glmd_read"
  /\ tasks'[t].pc = "done"
  /\ tasks'[t].path = "glmd_store"

MostRecentAscending(res, S, symbol, limit) ==
  /\ Len(res) = Min(limit, Cardinality(S))
  /\ \A i \in DOMAIN res : res[i] \in S /\ res[i].symbol = symbol
  /\ \A i, j \in DOMAIN res : i < j => res[i].timestamp < res[j].timestamp
  /\ \A b \in S \ Range(res) :
        \A i \in DOMAIN res : b.timestamp < res[i].timestamp

\* C2: with n bars of S stored, getLatestMarketData(S, limit) returns
\* exactly min(limit, n) bars: the most recent ones, in ascending timestamp
\* order, every one with symbol S.
C2_LatestBars ==
  [][\A t \in TaskIds :
       ReadReturns(t) =>
         MostRecentAscending(tasks'[t].result, BarsOf(store, tasks[t].symbol),
                             tasks[t].symbol, tasks[t].limit)]_vars

\* a read that returned fewer bars than stored, and one that returned them all
C2_Witness ==
  \E t \in TaskIds :
     /\ tasks[t].op = "glmd" /\ tasks[t].pc = "done"
     /\ tasks[t].path = "glmd_store"
     /\ Len(tasks[t].result) = RouteMaxLimit
     /\ Cardinality(BarsOf(store, tasks[t].symbol)) > RouteMaxLimit
     /\ \E b \in store : b.symbol # tasks[t].symbol

(***************************************************************************)
(* Properties of the entry paths                                           *)
(***************************************************************************)
\* the symbol does not match ^[A-Za-z0-9.]{1,10}$ or the limit is not an
\* integer of the route's range
InvalidQuery(q) ==
  \/ /\ HasParam(q, ParamSymbol)
     /\ ~MatchesSymbolRegex(GetParam(q, ParamSymbol))
  \/ /\ HasParam(q, ParamLimit)
     /\ \/ ~IsInt(GetParam(q, ParamLimit))
        \/ ParseInt(GetParam(q, ParamLimit)) \notin 1..RouteMaxLimit

Answered(t, op) == tasks[t].op = op /\ tasks[t].pc = "done"

\* C3: GET /api/market answers an invalid symbol or limit with 400
\* 'Validation error' without touching cache, service, store or generator
\* (so never with 404); a valid request gets 404 when the service returns
\* an empty sequence, 500 when the service throws, and 200 with the bars
\* in every other case.
C3_Classification ==
  \A t \in TaskIds :
     Answered(t, "http") =>
       LET tk == tasks[t]
       IN IF InvalidQuery(tk.req.query)
          THEN tk.status = 400 /\ tk.outcome = "validation" /\ tk.touched = {}
          ELSE CASE serviceMock = "empty" ->
                      tk.status = 404 /\ tk.outcome = "nodata"
                 [] serviceMock = "reject" ->
                      tk.status = 500 /\ tk.outcome = "error"
                 [] OTHER ->
                      /\ tk.status = 200 /\ tk.outcome = "data"
                      /\ tk.body.kind = "bars" /\ Len(tk.body.data) >= 1

\* the 12-character symbol was answered 400 while the store holds bars
C3_Witness ==
  \E t \in TaskIds :
     /\ Answered(t, "http")
     /\ tasks[t].req.query = <<Query(ParamSymbol, TOOLONG)>>
     /\ tasks[t].status = 400
     /\ store # {}

\* the input of an entry path is invalid: the symbol does not match the
\* pattern or the limit is outside the bound of the operation
InvalidEntry(tk) ==
  CASE tk.op = "http" -> InvalidQuery(tk.req.query)
    [] tk.op = "prediction" ->
         ~MatchesSymbolRegex(tk.symbol) \/ tk.limit \notin 1..RouteMaxLimit
    [] OTHER ->
         ~MatchesSymbolRegex(tk.symbol) \/ tk.limit \notin 1..MaxPoints

\* C4: on every entry path (market routes, POST /api/prediction, the socket
\* events subscribeSymbol and requestDataRefresh) invalid input ends in a
\* validation error: not in 'no data', not in data, and without reaching
\* the store or the generator.
C4_EntryValidation ==
  \A t \in TaskIds :
     (/\ tasks[t].pc = "done"
      /\ tasks[t].op \in {"http", "prediction", "refresh", "subscribe"}
      /\ InvalidEntry(tasks[t]))
     => /\ tasks[t].outcome = "validation"
        /\ tasks[t].touched \cap {"store", "generator"} = {}

(***************************************************************************)
(* Properties of the cache                                                 *)
(***************************************************************************)
\* GET req arrives and is taken up to its first await in slot t
GetStep(t, req) == \E rs \in LowDraws : HttpGet(t, req, rs)

ServedFromCache(t) == tasks'[t].xcache = "HIT"

\* the ttl the routes are documented with
DocumentedTtl(path) == IF path = PathMarket THEN TtlLatest ELSE TtlMinute

\* a response sent with sendWithCache is stored under the key of its request
\* with the ttl of its route
SetStoresPayload ==
  \A t \in TaskIds :
     (/\ tasks[t].op = "http" /\ tasks[t].pc # "done"
      /\ tasks'[t].pc = "done" /\ tasks'[t].xcache = "MISS")
     => /\ CacheKey(tasks[t].req) \in DOMAIN cache'
        /\ cache'[CacheKey(tasks[t].req)] =
             [v |-> tasks'[t].body,
              t |-> clock + DocumentedTtl(tasks[t].req.path)]

\* a get is a hit exactly while no more than the ttl has elapsed since the
\* set; the hit returns the stored payload, the miss deletes the entry
HitUpToTtl ==
  \A t \in TaskIds, req \in CacheRequests :
     GetStep(t, req) =>
       LET key == CacheKey(req)
       IN /\ ServedFromCache(t) <=>
               (key \in DOMAIN cache /\ clock <= cache[key].t)
          /\ ServedFromCache(t) =>
               tasks'[t].body = cache[key].v /\ tasks'[t].status = 200
          /\ ~ServedFromCache(t) => key \notin DOMAIN cache'

C6_Invalidate ==
  [][\A t \in TaskIds, p \in Patterns :
       (PostInvalidateCache(t, p) /\ Len(p) >= 1)
       => /\ DOMAIN cache' \subseteq DOMAIN cache
          /\ \A k \in DOMAIN cache :
                IF Includes(k, p)
                THEN k \notin DOMAIN cache' /\ ~CacheHit(cache', k, clock)
                ELSE k \in DOMAIN cache' /\ cache'[k] = cache[k]]_vars

\* an invalidation that removed some entries and kept another
C6_Witness ==
  \E t \in TaskIds :
     /\ Answered(t, "invalidate")
     /\ tasks[t].matchingKeys # {}
     /\ cache # <<>>
     /\ \A k \in tasks[t].matchingKeys : k \notin DOMAIN cache

\* the same route with the same set of name/value pairs
SameSignature(r1, r2) ==
  r1.path = r2.path /\ Range(r1.query) = Range(r2.query)

TickBroadcasts(e) == emitted' # emitted /\ e \in emitted' /\ e.src = "tick"

\* C8: on every tick the update for a tracked symbol S goes to a connected
\* client if and only if S is in that client's subscription set at the time
\* of the broadcast.
C8_SubscribersOnly ==
  [][\A e \in emitted' :
       TickBroadcasts(e) => e.to = {c \in conns : e.symbol \in subs[c]}]_vars

\* C9: if advancing the series of S fails during a tick (the store read or
\* the save of the new bar fails), nothing is broadcast for S in that tick
\* and S is not fetched again in that tick.
C9_NoBroadcastOnFailure ==
  /\ \A e \in emitted : e.src = "tick" => e.fpath # "fmd_catch"
  /\ \A t \in TaskIds :
        tasks[t].op = "tick" =>
          /\ \A i \in DOMAIN tasks[t].log :
                tasks[t].log[i].fpath = "fmd_catch" => ~tasks[t].log[i].sent
          /\ \A i, j \in DOMAIN tasks[t].log :
                i # j => tasks[t].log[i].symbol # tasks[t].log[j].symbol

\* C10: in every tick each tracked symbol (SPY, AAPL, MSFT, GOOGL) is
\* fetched and broadcast exactly once, in that order, whatever happened to
\* the symbols before it.
C10_EverySymbolOnce ==
  \A t \in TaskIds :
     tasks[t].op = "tick" =>
       LET tk == tasks[t]
           n == Len(tk.log)
       IN /\ n <= Len(TickSymbols)
          /\ \A i \in 1..n : tk.log[i].symbol = TickSymbols[i] /\ tk.log[i].sent
          /\ tk.pc = "done" => n = Len(TickSymbols)
          /\ tk.pc # "done" => tk.idx = n + 1 /\ tk.symbol = TickSymbols[n + 1]

\* a finished tick whose first fetch failed and whose last symbol was sent
C10_Witness ==
  \E t \in TaskIds :
     /\ Answered(t, "tick")
     /\ Len(tasks[t].log) = Len(TickSymbols)
     /\ tasks[t].log[1].fpath = "fmd_catch"
     /\ tasks[t].log[Len(TickSymbols)].sent
     /\ tasks[t].log[Len(TickSymbols)].fpath # "fmd_catch"

(***************************************************************************)
(* SpecSocket: two clients and their subscription sets                     *)
(***************************************************************************)
\* what the clients send with subscribeSymbol and unsubscribeSymbol
SymbolInputs == {<<"s", "p", "y">>, <<"a", "a", "p", "l">>, <<>>}

\* one read in flight at a time
SocketSlots == {1}

SocketJoins ==
  \E c \in ConnIds, t \in SocketSlots, rs \in LowDraws : Connect(c, t, rs)

SocketLeaves == \E c \in ConnIds : Disconnect(c)

SocketSubscribes ==
  \E c \in ConnIds, t \in SocketSlots, symbol \in SymbolInputs,
     rs \in LowDraws : SubscribeSymbol(c, t, symbol, rs)

SocketUnsubscribes ==
  \E c \in ConnIds, symbol \in SymbolInputs : UnsubscribeSymbol(c, symbol)

NextSocket ==
  \/ SocketJoins \/ SocketLeaves \/ SocketSubscribes \/ SocketUnsubscribes
  \/ StepHttp

SpecSocket == Init /\ [][NextSocket]_vars

(***************************************************************************)
(* SpecFetch: one fetchMarketData at a time, next to concurrent reads      *)
(***************************************************************************)
FetchSymbols == {SPY, AAPL}

\* the calls follow one another, each at a later Date.now() than the bars
\* the symbol already has
FetchOnce ==
  \E t \in TaskIds, symbol \in FetchSymbols, rs \in LowDraws :
     /\ \A u \in TaskIds : tasks[u].op = "fmd" => Free(u)
     /\ \A b \in BarsOf(store, symbol) : b.timestamp < clock
     /\ CallFetchMarketData(t, symbol, rs)

ReadAlongside ==
  \E t \in TaskIds, rs \in LowDraws : CallGetLatestMarketData(t, SPY, 1, rs)

NextFetch ==
  \/ StepGsdFind \/ StepGsdInsert \/ StepGlmdRead
  \/ StepFmdFindOne \/ StepFmdSave
  \/ FetchOnce \/ ReadAlongside \/ TimePasses

SpecFetch == Init /\ [][NextFetch]_vars

(***************************************************************************)
(* SpecGen: the three generators as functions of their inputs              *)
(***************************************************************************)
\* minutes between the latest stored bar and the call of fetchMarketData
OneDay == 1440
FourYears == 2102400
ElapsedMinutes == {0, 1, 5, OneDay, FourYears}

GenSymbols == {SPY, GOOGL, <<"X">>}

\* Math.random() at its two ends, independently for every use in a bar
GenDraws == {<<a, b, c, d, e>> : a \in {0, 999}, b \in {0, 999}, c \in {0, 999},
                                d \in {0, 999}, e \in {0, 999}}

\* the loop of generateSampleData at `now` = clock
GenSample ==
  \E symbol \in GenSymbols, n \in 1..MaxPoints, r \in GenDraws :
     /\ tasks[1].op = "none"
     /\ tasks' = [tasks EXCEPT ![1] =
                    [NewTask("gsd") EXCEPT
                       !.symbol = symbol,
                       !.batch = SampleBatch(symbol, n, clock,
                                             [k \in 1..n |-> r])]]
     /\ UNCHANGED <<clock, store, cache, conns, subs, emitted, ticks,
                    serviceMock>>

\* generateSimulatedData at `now` = clock
GenSimulated ==
  \E symbol \in GenSymbols, n \in 1..MaxPoints, r \in GenDraws :
     /\ tasks[1].op = "none"
     /\ tasks' = [tasks EXCEPT ![1] =
                    [NewTask("sim") EXCEPT
                       !.symbol = symbol,
                       !.result = generateSimulatedData(symbol, n, clock,
                                                        [k \in 1..n |-> r])]]
     /\ UNCHANGED <<clock, store, cache, conns, subs, emitted, ticks,
                    serviceMock>>

\* the new data point of fetchMarketData, built on the last backfilled bar
\* some minutes after it
GenNext ==
  \E e \in ElapsedMinutes, r \in GenDraws :
     /\ tasks[1].op = "gsd"
     /\ LET latestData == tasks[1].batch[Len(tasks[1].batch)]
        IN tasks' = [tasks EXCEPT ![1] =
                       [@ EXCEPT !.op = "fmd", !.batch = <<latestData>>,
                                 !.point = NextBar(tasks[1].symbol, latestData,
                                                   latestData.timestamp + 60 * e,
                                                   r)]]
     /\ UNCHANGED <<clock, store, cache, conns, subs, emitted, ticks,
                    serviceMock>>

NextGen == GenSample \/ GenSimulated \/ GenNext

SpecGen == Init /\ [][NextGen]_vars

(***************************************************************************)
(* SpecStore: documents written straight to the collection                 *)
(***************************************************************************)
\* documents around the limits of the schema (prices and volume near zero)
WrittenDocs ==
  {[symbol |-> SPY, timestamp |-> ts, open |-> o, high |-> h, low |-> l,
    close |-> c, volume |-> v, source |-> "CUSTOM"] :
     ts \in {0}, o \in {0, 1, 2}, h \in {1, 2}, l \in {1, 2},
     c \in {1, 2}, v \in {-1, 0}}

\* a document every validator accepts
GoodDoc ==
  [symbol |-> SPY, timestamp |-> 1, open |-> 1, high |-> 2, low |-> 1,
   close |-> 2, volume |-> 0, source |-> "CUSTOM"]

\* new MarketData(doc).save()
WriteSave ==
  \E doc \in WrittenDocs :
     LET r == Save(store, doc)
     IN /\ store' = r.store
        /\ tasks' = [tasks EXCEPT ![1] =
                       [NewTask("save") EXCEPT !.point = doc, !.err = r.err]]
        /\ UNCHANGED <<clock, cache, conns, subs, emitted, ticks, serviceMock>>

\* MarketData.insertMany([doc, good], { ordered: false }) and its catch
WriteInsertMany ==
  \E doc \in WrittenDocs :
     LET docs == <<doc, GoodDoc>>
     IN /\ store' = InsertMany(store, docs)
        /\ tasks' = [tasks EXCEPT ![1] =
                       [NewTask("insertMany") EXCEPT
                          !.point = doc,
                          !.err = IF InsertManyDup(store, docs)
                                  THEN "dup" ELSE "none"]]
        /\ UNCHANGED <<clock, cache, conns, subs, emitted, ticks, serviceMock>>

NextStore == WriteSave \/ WriteInsertMany

SpecStore == Init /\ [][NextStore]_vars

(***************************************************************************)
(* SpecFailing: reads and historical reads over a store that can fail      *)
(***************************************************************************)
FailingLimits == {1, RouteMaxLimit, MaxPoints}

HistoricalPeriods == {"1d", "1w", "1m", "1y", "2y"}

ReadLimit ==
  \E t \in TaskIds, limit \in FailingLimits, rs \in LowDraws :
     CallGetLatestMarketData(t, SPY, limit, rs)

ReadHistorical ==
  \E t \in TaskIds, period \in HistoricalPeriods, rs \in LowDraws :
     CallFetchHistoricalData(t, SPY, period, rs)

\* every await on the store resolves or rejects
StepFailing ==
  \E t \in TaskIds, ok \in BOOLEAN, rs \in LowDraws :
     \/ GsdFind(t, ok, rs)
     \/ GsdInsert(t, ok, rs)
     \/ GlmdRead(t, ok, rs)

NextFailing == ReadLimit \/ ReadHistorical \/ StepFailing

SpecFailing == Init /\ [][NextFailing]_vars

(***************************************************************************)
(* SpecScore: the sentiment report for every outcome of the signal branches *)
(***************************************************************************)
RsiOutcomes ==
  {<<>>, <<Signal("RSI", "Bullish", 20)>>, <<Signal("RSI", "Bearish", -20)>>,
   <<Signal("RSI", "Neutral-Bullish", 4)>>,
   <<Signal("RSI", "Neutral-Bearish", -4)>>}

MacdOutcomes ==
  {<<>>, <<Signal("MACD", "Bullish", 15)>>, <<Signal("MACD", "Bearish", -15)>>,
   <<Signal("MACD", "Bullish", 15), Signal("MACD Histogram", "Bullish", 10)>>,
   <<Signal("MACD", "Bearish", -15), Signal("MACD Histogram", "Bearish", -10)>>}

MaOutcomes ==
  {<<>>, <<Signal("Moving Averages", "Bullish", 15)>>,
   <<Signal("Moving Averages", "Bearish", -15)>>}

PriceVolumeOutcomes ==
  {<<>>, <<Signal("Price Action", "Bullish", 10)>>,
   <<Signal("Price Action", "Bearish", -10)>>,
   <<Signal("Volume", "Bullish", 10)>>, <<Signal("Volume", "Bearish", -10)>>,
   <<Signal("Price Action", "Bullish", 10), Signal("Volume", "Bullish", 10)>>,
   <<Signal("Price Action", "Bearish", -10), Signal("Volume", "Bearish", -10)>>}

\* the handler from the first branch to res.json, for one outcome of each
ScoreSignals ==
  \E rsi \in RsiOutcomes, macd \in MacdOutcomes, ma \in MaOutcomes,
     pv \in PriceVolumeOutcomes :
     /\ tasks[1].op = "none"
     /\ tasks' = [tasks EXCEPT ![1] =
                    [NewTask("sentiment") EXCEPT
                       !.symbol = SPY, !.status = 200,
                       !.body = [NoBody EXCEPT
                                   !.kind = "sentiment",
                                   !.data = SentimentReport(
                                              SPY, rsi \o macd \o ma \o pv,
                                              <<>>)]]]
     /\ UNCHANGED <<clock, store, cache, conns, subs, emitted, ticks,
                    serviceMock>>

\* the next request
ScoreAgain ==
  /\ tasks[1].op = "sentiment"
  /\ tasks' = [tasks EXCEPT ![1] = IdleTask]
  /\ UNCHANGED <<clock, store, cache, conns, subs, emitted, ticks, serviceMock>>

NextScore == ScoreSignals \/ ScoreAgain

SpecScore == Init /\ [][NextScore]_vars

(***************************************************************************)
(* SpecSentiment: sentiment requests one after the other, store may fail   *)
(***************************************************************************)
SentimentSymbols == {SPY, AAPL, TOOLONG}

AskSentiment ==
  \E symbol \in SentimentSymbols, rs \in DrawSeqs : GetSentiment(1, symbol, rs)

StepSentiment ==
  \E ok \in BOOLEAN, rs \in DrawSeqs :
     \/ GsdFind(1, ok, rs)
     \/ GsdInsert(1, ok, rs)
     \/ GlmdRead(1, ok, rs)

NextSentiment == AskSentiment \/ StepSentiment

SpecSentiment == Init /\ [][NextSentiment]_vars

(***************************************************************************)
(* SpecIndicators: calculateIndicators and the sentiment analysis of every *)
(* short series of closes                                                  *)
(***************************************************************************)
SeriesCloses == {1, 2, 3}

SeriesInputs == UNION {[1..n -> SeriesCloses] : n \in 1..MaxSeries}

\* the bars of a series: flat candles of a constant volume, five minutes
\* apart
SeriesBars(closes) ==
  [i \in DOMAIN closes |->
     [symbol |-> SPY, timestamp |-> i * BarSpacing, open |-> closes[i],
      high |-> closes[i], low |-> closes[i], close |-> closes[i],
      volume |-> 0]]

\* calculateIndicators(marketData) for one series
ComputeIndicators ==
  \E closes \in SeriesInputs :
     /\ tasks[1].op = "none"
     /\ tasks' = [tasks EXCEPT ![1] =
                    [NewTask("indicators") EXCEPT
                       !.symbol = SPY, !.pc = "done", !.log = closes,
                       !.result = SeriesBars(closes),
                       !.body = [NoBody EXCEPT
                                   !.kind = "indicators",
                                   !.data = technicalIndicators(closes)]]]
     /\ UNCHANGED <<clock, store, cache, conns, subs, emitted, ticks,
                    serviceMock>>

\* the sentiment handler on the same series
AnalyseSeries ==
  /\ tasks[1].op = "indicators"
  /\ LET answer == SentimentAnalysis(SPY, tasks[1].result)
     IN tasks' = [tasks EXCEPT ![1] =
                    [tasks[1] EXCEPT !.op = "analysis",
                                     !.status = answer.status,
                                     !.body = answer.body]]
  /\ UNCHANGED <<clock, store, cache, conns, subs, emitted, ticks, serviceMock>>

\* the next series
NextSeries ==
  /\ tasks[1].op = "analysis"
  /\ tasks' = [tasks EXCEPT ![1] = IdleTask]
  /\ UNCHANGED <<clock, store, cache, conns, subs, emitted, ticks, serviceMock>>

NextIndicators == ComputeIndicators \/ AnalyseSeries \/ NextSeries

SpecIndicators == Init /\ [][NextIndicators]_vars

(***************************************************************************)
(* SpecAnalytics: the alerts and the metrics of every short series         *)
(***************************************************************************)
AlertCloses == {100, 101, 104}

AlertVolumes == {0, 10, 40}

\* a flat candle
Candle(i, close, volume) ==
  [symbol |-> SPY, timestamp |-> i * BarSpacing, open |-> close,
   high |-> close, low |-> close, close |-> close, volume |-> volume]

\* what getLatestMarketData(symbol, 50) can answer: at most the bars asked for
AlertInputs ==
  UNION {{[i \in 1..n |-> Candle(i, cs[i], vs[i])] :
            cs \in [1..n -> AlertCloses], vs \in [1..n -> AlertVolumes]} :
         n \in 1..SentimentBars}

MetricCloses == {100, 102}

MetricInputs ==
  UNION {{[i \in 1..n |-> Candle(i, cs[i], 10)] :
            cs \in [1..n -> MetricCloses]} : n \in 1..MetricsBars}

\* getMarketAlerts on one answer of the read
ComputeAlerts ==
  \E marketData \in AlertInputs :
     /\ tasks[1].op = "none"
     /\ tasks' = [tasks EXCEPT ![1] =
                    [NewTask("alerts") EXCEPT
                       !.symbol = SPY, !.pc = "done", !.status = 200,
                       !.result = marketData,
                       !.body = [NoBody EXCEPT
                                   !.kind = "alerts",
                                   !.data = getMarketAlerts(marketData)]]]
     /\ UNCHANGED <<clock, store, cache, conns, subs, emitted, ticks,
                    serviceMock>>

\* the metrics route on one answer of its reads
ComputeMetrics ==
  \E symbol \in {SPY, AAPL}, marketData \in MetricInputs,
     spyData \in MetricInputs :
     /\ tasks[1].op = "none"
     /\ Len(spyData) <= Len(marketData)
     /\ symbol = SPY => spyData = marketData
     /\ tasks' = [tasks EXCEPT ![1] =
                    [NewTask("metrics") EXCEPT
                       !.symbol = symbol, !.pc = "done", !.status = 200,
                       !.result = marketData, !.log = spyData,
                       !.body = [NoBody EXCEPT
                                   !.kind = "metrics",
                                   !.data = TradingMetrics(symbol, marketData,
                                                           spyData)]]]
     /\ UNCHANGED <<clock, store, cache, conns, subs, emitted, ticks,
                    serviceMock>>

\* the next request
NextRequest ==
  /\ tasks[1].op \in {"alerts", "metrics"}
  /\ tasks' = [tasks EXCEPT ![1] = IdleTask]
  /\ UNCHANGED <<clock, store, cache, conns, subs, emitted, ticks, serviceMock>>

NextAnalytics == ComputeAlerts \/ ComputeMetrics \/ NextRequest

SpecAnalytics == Init /\ [][NextAnalytics]_vars

(***************************************************************************)
(* SpecTickCache: cached reads of SPY while the cron tick appends          *)
(***************************************************************************)
TickCacheRequests == {[path |-> PathMarket, query |-> <<>>]}

\* GET /api/market through cacheMiddleware, one request at a time
CachedRead ==
  \E t \in TaskIds, req \in TickCacheRequests, rs \in LowDraws :
     /\ \A u \in TaskIds : tasks[u].op = "http" => Free(u)
     /\ HttpGet(t, req, rs)

\* the first tick comes within a minute of the start
TickAppends ==
  \E t \in TaskIds, rs \in LowDraws : clock < TickPeriod /\ CronTick(t, rs)

StepTickCache ==
  \E t \in TaskIds, rs \in LowDraws :
     \/ GsdFind(t, TRUE, rs)
     \/ GsdInsert(t, TRUE, rs)
     \/ GlmdRead(t, TRUE, rs)
     \/ FmdFindOne(t, TRUE, rs)
     \/ FmdSave(t, TRUE, rs)

\* up to the end of the entry's time to live
SecondsPass ==
  \E d \in {TtlLatest \div 2} : clock + d <= TtlLatest /\ AdvanceClock(d)

NextTickCache == CachedRead \/ TickAppends \/ StepTickCache \/ SecondsPass

SpecTickCache == Init /\ [][NextTickCache]_vars

(***************************************************************************)
(* SpecBackfill: overlapping first reads of a symbol, no incremental bars  *)
(***************************************************************************)
\* getLatestMarketData from a route, a socket or a test
FirstRead ==
  \E t \in TaskIds, c \in Reads, rs \in LowDraws :
     CallGetLatestMarketData(t, c[1], c[2], rs)

\* generateSampleData called directly
Regenerate ==
  \E t \in TaskIds, rs \in LowDraws :
     CallGenerateSampleData(t, SPY, DefaultPoints, rs)

StepBackfill ==
  \E t \in TaskIds, rs \in LowDraws :
     \/ GsdFind(t, TRUE, rs)
     \/ GsdInsert(t, TRUE, rs)
     \/ GlmdRead(t, TRUE, rs)

\* a minute at a time, for two minutes
BackfillTimePasses ==
  \E d \in {TickPeriod} : clock + d <= 2 * TickPeriod /\ AdvanceClock(d)

NextBackfill ==
  FirstRead \/ Regenerate \/ StepBackfill \/ BackfillTimePasses

SpecBackfill == Init /\ [][NextBackfill]_vars

(***************************************************************************)
(* Properties of the broadcasts                                            *)
(***************************************************************************)
\* the step in which the tick loop of slot t gets the bars of one symbol
TickDelivers(t) ==
  /\ tasks[t].op = "tick" /\ tasks[t].pc # "done"
  /\ tasks'[t].op = "tick"
  /\ Len(tasks'[t].log) = Len(tasks[t].log) + 1

\* the step in which a socket handler of slot t gets its bars
SocketDelivers(t) ==
  /\ tasks[t].op \in {"connect", "refresh", "subscribe"}
  /\ tasks[t].pc # "done" /\ tasks'[t].pc = "done"

\* a tick update goes out in the step that fetched it, once, to the sockets
\* connected at that moment
SentByItsTick(e) ==
  \E t \in TaskIds :
     /\ TickDelivers(t)
     /\ e.symbol = tasks[t].symbol /\ e.tickNo = tasks[t].tickNo
     /\ e.to = conns
     /\ tasks'[t].log[Len(tasks'[t].log)].symbol = e.symbol
     /\ \A i \in DOMAIN tasks[t].log : tasks[t].log[i].symbol # e.symbol

\* what a socket gets outside a tick is the answer to its own request: bars
\* read in this very step, never a tick's update
SnapshotOfNow(e) ==
  \E t \in TaskIds :
     /\ SocketDelivers(t)
     /\ e.to \subseteq {tasks[t].conn}
     /\ e.tickNo = 0
     /\ e.data = tasks'[t].result
     /\ e.path = "glmd_store" =>
          e.data = Reverse(FindLatest(store, tasks[t].symbol, tasks[t].limit))

OthersKeep(c) == \A d \in ConnIds \ {c} : subs'[d] = subs[d]

Subscribes(c, symbol) ==
  \E t \in TaskIds, rs \in LowDraws : SubscribeSymbol(c, t, symbol, rs)

Joins(c) == \E t \in TaskIds, rs \in LowDraws : Connect(c, t, rs)

SubscriptionEvent ==
  \/ \E c \in ConnIds : Joins(c) \/ Disconnect(c)
  \/ \E c \in ConnIds, symbol \in SymbolInputs :
        Subscribes(c, symbol) \/ UnsubscribeSymbol(c, symbol)

\* C12: every connection has its own subscription set, {SPY} at first;
\* subscribeSymbol with a non-empty string adds its upper-case form to that
\* set only, unsubscribeSymbol removes it from that set only; a second
\* subscribe and an unsubscribe of an absent symbol change nothing.
C12_OwnSubscriptions ==
  [][/\ \A c \in ConnIds :
          /\ Joins(c) => subs'[c] = {SPY} /\ OthersKeep(c)
          /\ \A symbol \in SymbolInputs :
               /\ Subscribes(c, symbol) =>
                    /\ OthersKeep(c)
                    /\ subs'[c] = IF Len(symbol) > 0
                                  THEN subs[c] \cup {toUpperCase(symbol)}
                                  ELSE subs[c]
                    /\ toUpperCase(symbol) \in subs[c] => subs' = subs
               /\ UnsubscribeSymbol(c, symbol) =>
                    /\ OthersKeep(c)
                    /\ subs'[c] = subs[c] \ {toUpperCase(symbol)}
                    /\ toUpperCase(symbol) \notin subs[c] => subs' = subs
     /\ ~SubscriptionEvent => subs' = subs]_vars

\* both clients are connected; one has added AAPL, the other has dropped SPY
C12_Witness ==
  /\ conns = {1, 2}
  /\ subs[1] = {SPY, AAPL}
  /\ subs[2] = {}

(***************************************************************************)
(* Properties of fetchMarketData                                           *)
(***************************************************************************)
\* this step is a step of the fetchMarketData call in slot t
FetchSteps(t) ==
  tasks[t].op = "fmd" /\ ~Free(t) /\ tasks'[t] # tasks[t]

\* the bar built after findOne continues the latest bar of the symbol
ContinuesLatest(p, symbol) ==
  /\ p.symbol = symbol
  /\ p.timestamp = clock
  /\ \A b \in BarsOf(store, symbol) : b.timestamp < p.timestamp
  /\ p.open = FindLatest(store, symbol, 1)[1].close
  /\ p.volume >= 50000 /\ p.volume <= 200000

\* C13: with a bar of S in a healthy store, fetchMarketData(S) appends
\* exactly one bar, for S only: later than every earlier bar of S, opening
\* at the close of the latest one, volume in [50000, 200000]; when the call
\* returns, that bar is the latest of S and the last bar returned.
C13_AppendsOne ==
  [][\A t \in TaskIds :
       FetchSteps(t) /\ BarsOf(store, tasks[t].symbol) # {} =>
         LET tk == tasks[t]
             S == tk.symbol
         IN /\ tk.pc = "fmd_findOne" =>
                 /\ store' = store
                 /\ tasks'[t].pc = "fmd_save"
                 /\ ContinuesLatest(tasks'[t].point, S)
            /\ tk.pc = "fmd_save" =>
                 /\ tk.point \notin store
                 /\ store' = store \cup {tk.point}
                 /\ \A b \in BarsOf(store, S) : b.timestamp < tk.point.timestamp
                 /\ tasks'[t].fpath = "fmd_saved"
            /\ tk.fpath = "fmd_saved" => store' = store
            /\ tk.fpath = "fmd_saved" /\ tasks'[t].pc = "done" =>
                 /\ Len(tasks'[t].result) > 0
                 /\ tasks'[t].result[Len(tasks'[t].result)]
                      = FindLatest(store', S, 1)[1]
                 /\ tasks'[t].path = "glmd_store"]_vars

\* a fetch of SPY five minutes after the first one has returned: its bar is
\* in the store and closes the bars returned
C13_Witness ==
  \E t \in TaskIds :
     /\ tasks[t].op = "fmd" /\ tasks[t].pc = "done"
     /\ tasks[t].symbol = SPY /\ tasks[t].fpath = "fmd_saved"
     /\ clock = BarSpacing
     /\ tasks[t].result[Len(tasks[t].result)].timestamp = clock
     /\ tasks[t].result[Len(tasks[t].result)] \in store
     /\ \E b \in BarsOf(store, SPY) : b.timestamp = 0 /\ b.open # b.close

(***************************************************************************)
(* Properties of the generated bars                                        *)
(***************************************************************************)
BarInvariants(b) ==
  /\ b.high >= Max(b.open, b.close)
  /\ b.low <= Min(b.open, b.close)
  /\ b.open > 0 /\ b.high > 0 /\ b.low > 0 /\ b.close > 0
  /\ b.volume >= 0

\* the bars the generator call in slot t has produced
Generated(t) ==
  {tasks[t].batch[i] : i \in DOMAIN tasks[t].batch}
    \cup {tasks[t].result[i] : i \in DOMAIN tasks[t].result}
    \cup (IF tasks[t].point = <<>> THEN {} ELSE {tasks[t].point})

\* C14: every bar from generateSampleData, generateSimulatedData and
\* fetchMarketData, whatever the draws, the symbol and the time elapsed,
\* has high >= max(open, close), low <= min(open, close), positive prices
\* and a non-negative volume.
C14_BarInvariants == \A b \in Generated(1) : BarInvariants(b)

\* the same, for the new data points built less than four years after the
\* latest bar and for the two loops
C14_WithinYears ==
  \A b \in Generated(1) :
     (tasks[1].op = "fmd" /\ b = tasks[1].point
        => b.timestamp - tasks[1].batch[1].timestamp < 60 * FourYears)
     => BarInvariants(b)

(***************************************************************************)
(* Properties of the writes                                                *)
(***************************************************************************)
\* C15: a bar that breaks an invariant (high < max(open, close),
\* low > min(open, close), high < low, a non-positive price, a negative
\* volume) is rejected with a validation error by save and by insertMany,
\* and is not in the store.
C15_RejectsInvalid ==
  tasks[1].op \in {"save", "insertMany"} /\ ~BarInvariants(tasks[1].point)
    => /\ tasks[1].err \in {"validation", "presave"}
       /\ CastDoc(tasks[1].point) \notin store

\* what the validators do enforce on every stored bar
C15_Enforced ==
  \A b \in store :
     /\ b.open > 0 /\ b.close > 0 /\ b.volume >= 0
     /\ b.high >= b.open /\ b.low <= b.open

(***************************************************************************)
(* Properties of the collection over time                                  *)
(***************************************************************************)
\* C16: the store is append-only: after every step of every operation the
\* bars that were persisted are still there, field for field.
C16_AppendOnly == [][store \subseteq store']_vars

\* SPY has been backfilled, read, and extended by two fetches five minutes
\* apart; AAPL has been backfilled by a read; the first bars are still there
C16_Witness ==
  /\ \E b \in BarsOf(store, SPY) : b.timestamp = BarSpacing
  /\ \E b \in BarsOf(store, SPY) : b.timestamp = 0
  /\ \E b \in BarsOf(store, SPY) : b.timestamp = 0 - BarSpacing
  /\ BarsOf(store, AAPL) # {}

(***************************************************************************)
(* Properties of the reads over a failing store                            *)
(***************************************************************************)
\* the step in which an await on the store of the read in slot t rejects
StoreFails(t) ==
  /\ tasks[t].op = "glmd" /\ ~Free(t)
  /\ tasks[t].err # "dep" /\ tasks'[t].err = "dep"

\* C17: when the store fails at any step of getLatestMarketData for a valid
\* symbol and a limit in [1, 1000], the call falls back to the generator
\* once, does not go back to the store, and returns exactly `limit`
\* simulated bars, never an empty result.
C17_FallbackOnFailure ==
  [][\A t \in TaskIds :
       StoreFails(t) =>
         /\ tasks'[t].pc = "done"
         /\ store' = store
         /\ tasks'[t].path = "glmd_catch"
         /\ Len(tasks'[t].result) = tasks[t].limit
         /\ Len(tasks'[t].result) > 0
         /\ tasks'[t].result
              = generateSimulatedData(tasks[t].symbol, tasks[t].limit, clock,
                                      CHOOSE rs \in LowDraws : TRUE)]_vars

\* the final read of stored SPY bars was rejected and the call returned
\* RouteMaxLimit simulated bars
C17_Witness ==
  \E t \in TaskIds :
     /\ tasks[t].op = "glmd" /\ tasks[t].pc = "done"
     /\ tasks[t].err = "dep" /\ tasks[t].path = "glmd_catch"
     /\ tasks[t].limit = RouteMaxLimit
     /\ Len(tasks[t].result) = RouteMaxLimit
     /\ BarsOf(store, SPY) # {}

(***************************************************************************)
(* Properties of fetchHistoricalData                                       *)
(***************************************************************************)
\* the call in slot t is fetchHistoricalData with a valid period
Historical(t) == tasks[t].op = "fhd" /\ tasks[t].period \in validPeriods

LongPeriod(t) == Historical(t) /\ PeriodPoints(tasks[t].period) > PersistCap

ShortPeriod(t) == Historical(t) /\ PeriodPoints(tasks[t].period) <= PersistCap

PeriodTable ==
  /\ PeriodPoints("1d") = 75 /\ PeriodPoints("1w") = 390
  /\ PeriodPoints("1m") = 1680 /\ PeriodPoints("3m") = 5000
  /\ PeriodPoints("6m") = 10000 /\ PeriodPoints("1y") = 20000

\* a period within the cap is answered by getLatestMarketData with its count
ServedThroughRead(t) ==
  ShortPeriod(t) /\ tasks[t].pc = "done" /\ tasks[t].fpath # "fhd_catch" =>
     /\ tasks[t].fpath = "fhd_store"
     /\ tasks[t].limit = Scaled(PeriodPoints(tasks[t].period))
     /\ tasks[t].path \in {"glmd_store", "glmd_empty", "glmd_catch"}
     /\ Len(tasks[t].result) <= tasks[t].limit

Reports ==
  {tasks[t].body.data : t \in {u \in TaskIds : tasks[u].op = "sentiment"
                                              /\ tasks[u].status = 200
                                              /\ tasks[u].body.kind = "sentiment"}}

\* score is the integer nearest to 25 * raw (halves go up), within bounds
ScoreOfRaw(r) ==
  LET x == Max(-400, Min(400, 5 * r.raw))
  IN /\ 4 * r.score - 2 <= x /\ x < 4 * r.score + 2
     /\ r.score >= -100 /\ r.score <= 100

LabelOfRaw(r) ==
  /\ r.raw < -40 => r.sentiment = "Bearish"
  /\ r.raw >= -40 /\ r.raw < -10 => r.sentiment = "Slightly Bearish"
  /\ r.raw >= -10 /\ r.raw < 10 => r.sentiment = "Neutral"
  /\ r.raw >= 10 /\ r.raw < 40 => r.sentiment = "Slightly Bullish"
  /\ r.raw >= 40 => r.sentiment = "Bullish"

SameSign(r) ==
  /\ r.sentiment \in {"Bearish", "Slightly Bearish"} => r.score < 0
  /\ r.sentiment \in {"Bullish", "Slightly Bullish"} => r.score > 0

\* C20: for every combination of signal outcomes the score is
\* round(clamp(25 * raw, -100, 100)), within [-100, 100]; the label is the
\* one of the raw score's class (< -2, [-2, -0.5), [-0.5, 0.5), [0.5, 2),
\* >= 2); a bearish label never comes with a positive score nor a bullish
\* one with a negative score.
C20_ScoreAndLabel ==
  \A r \in Reports :
     /\ r.raw = SentimentScore(r.signals)
     /\ ScoreOfRaw(r) /\ LabelOfRaw(r) /\ SameSign(r)

\* a raw score of exactly -2 (RSI overbought, MACD and averages bearish,
\* price up): Slightly Bearish, score -50
C20_Witness ==
  \E r \in Reports :
     /\ r.raw = -40 /\ r.sentiment = "Slightly Bearish" /\ r.score = -50
     /\ Len(r.signals) = 4

\* the sentiment call in slot t has answered 200 and the store is as the
\* previous call for the symbol left it
AnsweredAgain(t) ==
  /\ tasks[t].op = "sentiment" /\ tasks[t].pc = "done"
  /\ tasks[t].status = 200
  /\ tasks[t].log # <<>>
  /\ tasks[t].log[1].store = store

\* C19: two sentiment calls for one symbol with no store write between them
\* return the same report, whether the bars came from the store or from
\* the fallback generator.
C19_Idempotent ==
  \A t \in TaskIds :
     AnsweredAgain(t) => tasks[t].body.data = tasks[t].log[1].report

\* the same for two calls that both read their bars from the store
C19_FromStore ==
  \A t \in TaskIds :
     AnsweredAgain(t) /\ tasks[t].path = "glmd_store"
       /\ tasks[t].log[1].path = "glmd_store"
       => tasks[t].body.data = tasks[t].log[1].report

(***************************************************************************)
(* Properties of the indicator engine                                      *)
(***************************************************************************)
\* the series whose indicators slot 1 holds
Series == tasks[1].log

HasIndicators == tasks[1].op = "indicators"

Analysed == tasks[1].op = "analysis"

\* the fast EMA and the slow EMA at the same price index: the last
\* Len(emaSlow) values of the fast one against the slow one
AlignedMacdLine(data) ==
  LET emaFast == calculateEMA(data, FastPeriod).v
      emaSlow == calculateEMA(data, SlowPeriod).v
  IN [j \in 1..Len(emaSlow) |->
        JsSub(At(emaFast, j - 1 + (Len(emaFast) - Len(emaSlow))), emaSlow[j])]

\* the histogram of the aligned line: line minus signal on their common tail
AlignedHistogram(data) ==
  LET line == AlignedMacdLine(data)
      signal == calculateEMA(line, SignalPeriod).v
  IN [j \in 1..Len(signal) |->
        JsSub(At(line, j - 1 + (Len(line) - Len(signal))), signal[j])]

HasSignal(indicator, signal) ==
  \E i \in DOMAIN tasks[1].body.data.signals :
     /\ tasks[1].body.data.signals[i].indicator = indicator
     /\ tasks[1].body.data.signals[i].signal = signal

\* C21: with two consecutive histogram values, the report carries the
\* bullish histogram signal exactly when the latest histogram is positive and
\* above the previous one, and the bearish one exactly when it is negative
\* and below the previous one
C21_HistogramAcceleration ==
  Analysed /\ tasks[1].status = 200
           /\ Len(Series) >= SlowPeriod + SignalPeriod =>
    LET histogram == AlignedHistogram(Prices(Series))
        latest == histogram[Len(histogram)]
        previous == histogram[Len(histogram) - 1]
    IN /\ HasSignal("MACD Histogram", "Bullish")
            <=> (JsGt(latest, Num(0)) /\ JsGt(latest, previous))
       /\ HasSignal("MACD Histogram", "Bearish")
            <=> (JsLt(latest, Num(0)) /\ JsLt(latest, previous))

\* the histogram signal is never given
C21_NeverGiven ==
  Analysed /\ tasks[1].status = 200 =>
    /\ ~HasSignal("MACD Histogram", "Bullish")
    /\ ~HasSignal("MACD Histogram", "Bearish")

NumberOrNull(x) == x.k \in {"number", "null"}

\* C22: every field of the indicators is a number or null, and the
\* sentiment analysis of the series answers 200
C22_NumberOrNull ==
  /\ HasIndicators =>
       LET indicators == tasks[1].body.data
       IN /\ NumberOrNull(indicators.sma20) /\ NumberOrNull(indicators.sma50)
          /\ NumberOrNull(indicators.ema12) /\ NumberOrNull(indicators.ema26)
          /\ NumberOrNull(indicators.rsi)
          /\ NumberOrNull(indicators.macd.line)
          /\ NumberOrNull(indicators.macd.signal)
          /\ NumberOrNull(indicators.macd.histogram)
  /\ Analysed => tasks[1].status = 200

\* the moving averages are numbers or null
C22_AveragesDefined ==
  HasIndicators =>
    LET indicators == tasks[1].body.data
    IN /\ NumberOrNull(indicators.sma20) /\ NumberOrNull(indicators.sma50)
       /\ NumberOrNull(indicators.ema12) /\ NumberOrNull(indicators.ema26)

\* C25: the MACD line is the aligned difference of the two EMAs, as long
\* as the slow EMA, and its latest value is the latest fast EMA minus the
\* latest slow EMA
C25_MacdAligned ==
  HasIndicators /\ Len(Series) >= SlowPeriod + SignalPeriod =>
    LET data == Prices(Series)
        macd == calculateMACD(data, FastPeriod, SlowPeriod, SignalPeriod)
        indicators == tasks[1].body.data
    IN /\ Len(macd.macdLine) = Len(calculateEMA(data, SlowPeriod).v)
       /\ macd.macdLine = AlignedMacdLine(data)
       /\ indicators.macd.line = JsSub(indicators.ema12, indicators.ema26)

\* the MACD line is as long as the fast EMA
C25_FastLength ==
  HasIndicators /\ Len(Series) >= SlowPeriod + SignalPeriod =>
    LET data == Prices(Series)
    IN Len(calculateMACD(data, FastPeriod, SlowPeriod, SignalPeriod).macdLine)
         = Len(calculateEMA(data, FastPeriod).v)

\* C26: a series of at least RsiPeriod + 1 prices has an RSI, the one of
\* its last RsiPeriod deltas
C26_LatestWindow ==
  HasIndicators /\ Len(Series) >= RsiPeriod + 1 =>
    LET changes == Changes(Series)
    IN tasks[1].body.data.rsi
         = RsiOfWindow(SubSeq(changes, Len(changes) - RsiPeriod + 1,
                              Len(changes)))

\* the RSI of a longer series is the one of the RsiPeriod deltas before the
\* last one
C26_WindowBeforeLast ==
  HasIndicators /\ Len(Series) >= RsiPeriod + 2 =>
    LET changes == Changes(Series)
    IN tasks[1].body.data.rsi
         = RsiOfWindow(SubSeq(changes, Len(changes) - RsiPeriod,
                              Len(changes) - 1))

(***************************************************************************)
(* Properties of the alerts and of the metrics                             *)
(***************************************************************************)
Alerted == tasks[1].op = "alerts"

HasAlert(alert) ==
  \E i \in DOMAIN tasks[1].body.data : tasks[1].body.data[i] = alert

CountAlert(alert) ==
  Cardinality({i \in DOMAIN tasks[1].body.data : tasks[1].body.data[i] = alert})

\* the last bar's volume is above 1.5 times the mean of the last
\* VolumeWindow volumes
AboveTrailingMean(marketData) ==
  2 * VolumeWindow * marketData[Len(marketData)].volume
    > 3 * SumLast(VolumesOf(marketData), VolumeWindow)

\* C23: one volume alert exactly when there are VolumeWindow bars and the
\* last volume exceeds 1.5 times their mean; none with fewer bars
C23_VolumeSpike ==
  Alerted =>
    LET marketData == tasks[1].result
        spike == Len(marketData) >= VolumeWindow
                   /\ AboveTrailingMean(marketData)
    IN /\ spike => CountAlert(UnusualVolume) = 1
       /\ ~spike => CountAlert(UnusualVolume) = 0

\* with a full window the volume alert is as the claim says
C23_FullWindow ==
  Alerted /\ Len(tasks[1].result) >= VolumeWindow =>
    /\ AboveTrailingMean(tasks[1].result) => CountAlert(UnusualVolume) = 1
    /\ ~AboveTrailingMean(tasks[1].result) => CountAlert(UnusualVolume) = 0

\* the mean of exactly k closes ending at bar `last`, times k; <<>> when
\* there are fewer than k
MeanOfExactly(closes, last, k) ==
  IF last < k THEN <<>> ELSE <<SumLast(SubSeq(closes, 1, last), k)>>

\* C27: a crossover alert only when both days have SentimentBars closes,
\* and then exactly when the averages of exactly ShortWindow and
\* SentimentBars closes change their order; never both alerts
C27_Crossover ==
  Alerted =>
    LET closes == ClosesOf(tasks[1].result)
        n == Len(closes)
        s20t == MeanOfExactly(closes, n, ShortWindow)
        s50t == MeanOfExactly(closes, n, SentimentBars)
        s20y == MeanOfExactly(closes, n - 1, ShortWindow)
        s50y == MeanOfExactly(closes, n - 1, SentimentBars)
        full == s20t # <<>> /\ s50t # <<>> /\ s20y # <<>> /\ s50y # <<>>
        below(s20, s50) == SentimentBars * s20[1] < ShortWindow * s50[1]
        above(s20, s50) == SentimentBars * s20[1] > ShortWindow * s50[1]
    IN /\ HasAlert(CrossedAbove)
            <=> (full /\ below(s20y, s50y) /\ above(s20t, s50t))
       /\ HasAlert(CrossedBelow)
            <=> (full /\ above(s20y, s50y) /\ below(s20t, s50t))
       /\ ~(HasAlert(CrossedAbove) /\ HasAlert(CrossedBelow))

\* at most one of the two crossover alerts
C27_AtMostOne ==
  Alerted => CountAlert(CrossedAbove) + CountAlert(CrossedBelow) <= 1

Measured == tasks[1].op = "metrics"

\* C24: a metric whose window is longer than the series is null
C24_PartialResults ==
  Measured =>
    LET n == Len(tasks[1].result)
        metrics == tasks[1].body.data
    IN /\ n < SentimentBars => metrics.ma50 = Null
       /\ n < LongWindow => metrics.ma200 = Null
       /\ n < 2 => metrics.volatility = Null /\ metrics.beta = Null

\* the volatility of a single bar is null, and so is its beta against
\* another symbol
C24_SingleBar ==
  Measured /\ Len(tasks[1].result) < 2 =>
    /\ tasks[1].body.data.volatility = Null
    /\ tasks[1].symbol # SPY => tasks[1].body.data.beta = Null

(***************************************************************************)
(* Properties of the cache under the tick                                  *)
(***************************************************************************)
\* slot t answers a GET from the cache in this step
AnswersFromCache(t) ==
  /\ tasks'[t] # tasks[t]
  /\ tasks'[t].op = "http" /\ tasks'[t].pc = "done"
  /\ tasks'[t].status = 200 /\ tasks'[t].xcache = "HIT"

\* the bars of the body include the newest bar the store holds for SPY
IncludesNewest(body, st) ==
  \A b \in BarsOf(st, SPY) :
     \E i \in DOMAIN body.data : body.data[i].timestamp >= b.timestamp

\* C28: an answer from the cache includes the newest bar of the symbol, the
\* one a tick appended included
C28_FreshAfterTick ==
  [][\A t \in TaskIds :
       AnswersFromCache(t) => IncludesNewest(tasks'[t].body, store')]_vars

\* the tick leaves the cache as it is
C28_TickKeepsCache ==
  [][\A t \in TaskIds :
       tasks[t].op = "tick" /\ tasks'[t].op = "tick" /\ tasks'[t] # tasks[t]
         => \A key \in DOMAIN cache :
               key \in DOMAIN cache' /\ cache'[key] = cache[key]]_vars

(***************************************************************************)
(* Properties of the backfill under overlapping calls                      *)
(***************************************************************************)
\* the numbers of bars a backfill of SpecBackfill asks for
BackfillSizes == {Max(c[2], DefaultPoints) : c \in Reads} \cup {DefaultPoints}

\* the bars are one run, BarSpacing apart
OneRun(bars) ==
  \A b \in bars :
     \/ \A other \in bars : other.timestamp <= b.timestamp
     \/ \E next \in bars : next.timestamp = b.timestamp + BarSpacing

\* C29: a symbol that was backfilled holds the bars of one backfill: as many
\* as one call generates, at the fixed spacing
C29_BackfillOnce ==
  \A S \in {SPY, AAPL} :
     BarsOf(store, S) # {} =>
       /\ Cardinality(BarsOf(store, S)) \in BackfillSizes
       /\ OneRun(BarsOf(store, S))

\* a generateSampleData that finds a bar inserts nothing
C29_NothingOnceFilled ==
  [][\A t \in TaskIds :
       tasks[t].pc = "gsd_find" /\ tasks'[t] # tasks[t]
         /\ BarsOf(store, tasks[t].symbol) # {}
         => store' = store /\ tasks'[t].pc # "gsd_insert"]_vars

(***************************************************************************)
(* Properties of overlapping fetches                                       *)
(***************************************************************************)
\* slot t saves its new bar in this step
Appends(t) ==
  /\ tasks[t].pc = "fmd_save" /\ tasks'[t] # tasks[t]
  /\ store' = store \cup {tasks[t].point} /\ store' # store

\* C30: a bar that is appended is later than every bar of its symbol and
\* opens at the close of the latest of them
C30_SerializedAppends ==
  [][\A t \in TaskIds :
       Appends(t) =>
         LET latest == FindLatest(store, tasks[t].symbol, 1)[1]
         IN /\ tasks[t].point.timestamp > latest.timestamp
            /\ tasks[t].point.open = latest.close]_vars

\* the new bar opens at the close of the bar its findOne returned
C30_OpensAtReadClose ==
  [][\A t \in TaskIds :
       tasks[t].pc = "fmd_findOne" /\ tasks'[t].pc = "fmd_save" =>
         tasks'[t].point.open
           = FindLatest(store, tasks[t].symbol, 1)[1].close]_vars

====
